---- MODULE Spec2Model ----
(***************************************************************************)
(* A model of the federation gateway of fastify-gql / mercurius:           *)
(*   - the bootstrap of the service map (introspection of every service,   *)
(*     createTypeMap, the ownership index, the wiring of the resolvers),   *)
(*   - the delegating resolvers (the three resolvers of the gateway module *)
(*     and makeResolver of lib/gateway/make-resolver.js), the request they *)
(*     send and the promise they return.                                   *)
(***************************************************************************)
EXTENDS Integers, Sequences, FiniteSets, TLC

(***************************************************************************)
(* Bounds of the model.                                                    *)
(***************************************************************************)
\* the longest list a service answers a list-valued field with
MaxItems == 2

(***************************************************************************)
(* JavaScript values.  A JSON value is a tagged record; every tag has its  *)
(* own payload field, so two values of different tags never compare their  *)
(* payloads.                                                               *)
(***************************************************************************)
JUndefined == [j |-> "undefined"]
JNull == [j |-> "null"]
JStr(s) == [j |-> "string", str |-> s]
JObj(f) == [j |-> "object", props |-> f]
JArr(s) == [j |-> "array", items |-> s]

\* the result of an evaluation that may throw
Ok(v) == [threw |-> FALSE, value |-> v]
Threw == [threw |-> TRUE]

\* v[k]: a property read.  Reading a property of null or undefined throws a
\* TypeError; a missing property reads undefined
CanRead(v) == v.j \notin {"undefined", "null"}
GetProp(v, k) ==
  IF v.j = "object" /\ k \in DOMAIN v.props THEN v.props[k]
  ELSE IF v.j = "array" /\ k \in DOMAIN v.items THEN v.items[k]
  ELSE JUndefined

\* JSON.stringify of an array element: undefined is written as null
JsonElement(v) == IF v.j = "undefined" THEN JNull ELSE v

(***************************************************************************)
(* AST nodes of a GraphQL document (graphql-js Kind values).                 *)
(***************************************************************************)
NoName == "<no name>"

\* an argument value: a variable, an object literal that mentions a variable,
\* or a plain literal
Variable(n) == [kind |-> "Variable", name |-> n]
ObjectValue(n) == [kind |-> "ObjectValue", name |-> n]
IntValue(n) == [kind |-> "IntValue", name |-> n]
Argument(n, v) == [name |-> n, value |-> v]

\* a selection: a field (selections = << >> when it has no selection set), a
\* fragment spread, or an inline fragment (which has no name)
Field(n, args, sels) ==
  [kind |-> "Field", name |-> n, arguments |-> args, selections |-> sels,
   typeCondition |-> NoName]
FragmentSpread(n) ==
  [kind |-> "FragmentSpread", name |-> n, arguments |-> << >>,
   selections |-> << >>, typeCondition |-> NoName]
InlineFragment(t, sels) ==
  [kind |-> "InlineFragment", name |-> NoName, arguments |-> << >>,
   selections |-> sels, typeCondition |-> t]
FragmentDefinition(n, t, sels) ==
  [kind |-> "FragmentDefinition", name |-> n, typeCondition |-> t,
   selections |-> sels]

\* the synthetic field every pruned selection set ends with
TypenameField == Field("__typename", << >>, << >>)

(***************************************************************************)
(* SDL documents.  A definition is a type definition with fields (object  *)
(* type), a type definition without fields (enum, scalar, union) or an    *)
(* object type extension.  A field definition carries its named type and   *)
(* whether it is a list.                                                   *)
(***************************************************************************)
FieldDef(n, t, isList) == [name |-> n, type |-> t, list |-> isList]
ObjectTypeDefinition(n, fs) ==
  [kind |-> "ObjectTypeDefinition", name |-> n, fields |-> fs]
ObjectTypeExtension(n, fs) ==
  [kind |-> "ObjectTypeExtension", name |-> n, fields |-> fs]
EnumTypeDefinition(n) ==
  [kind |-> "EnumTypeDefinition", name |-> n, fields |-> << >>]

isTypeDefinitionNode(d) ==
  d.kind \in {"ObjectTypeDefinition", "EnumTypeDefinition"}
isTypeExtensionNode(d) == d.kind \in {"ObjectTypeExtension"}
\* definition.fields is undefined on a definition that has no fields
HasFields(d) == d.kind \in {"ObjectTypeDefinition", "ObjectTypeExtension"}

ScalarTypes == {"ID", "String"}

Range(s) == {s[i] : i \in DOMAIN s}

\* the sequences over S of length n at most
BoundedSeq(S, n) == UNION {[1..k -> S] : k \in 0..n}

EmptyMap == [x \in {} |-> {}]
Put(m, k, v) == [x \in DOMAIN m \cup {k} |-> IF x = k THEN v ELSE m[x]]

(***************************************************************************)
(* The SDLs of the subgraphs.  An SDL that graphql's parse() rejects has   *)
(* parses = FALSE.                                                         *)
(***************************************************************************)
Sdl(defs) == [parses |-> TRUE, definitions |-> defs]
UnparseableSdl == [parses |-> FALSE, definitions |-> << >>]

ReviewsBasicSdl ==
  Sdl(<< ObjectTypeDefinition("Review",
           << FieldDef("id", "ID", FALSE), FieldDef("productId", "ID", FALSE) >>),
         ObjectTypeExtension("Query", << FieldDef("reviews", "Review", TRUE) >>) >>)

ProductsSdl ==
  Sdl(<< ObjectTypeDefinition("Product",
           << FieldDef("id", "ID", FALSE), FieldDef("name", "String", FALSE) >>),
         ObjectTypeExtension("Review", << FieldDef("product", "Product", FALSE) >>),
         ObjectTypeExtension("Query", << FieldDef("topProducts", "Product", TRUE) >>) >>)

UsersSdl ==
  Sdl(<< ObjectTypeDefinition("User",
           << FieldDef("id", "ID", FALSE), FieldDef("name", "String", FALSE),
              FieldDef("address", "Address", FALSE) >>),
         ObjectTypeDefinition("Address", << FieldDef("city", "String", FALSE) >>),
         ObjectTypeExtension("Query", << FieldDef("me", "User", FALSE) >>) >>)

\* reviews with an entity reference (Review.author) and a field contributed to
\* the User entity
ReviewsSdl ==
  Sdl(<< ObjectTypeDefinition("Review",
           << FieldDef("id", "ID", FALSE), FieldDef("productId", "ID", FALSE),
              FieldDef("author", "User", FALSE) >>),
         ObjectTypeExtension("Query", << FieldDef("reviews", "Review", TRUE) >>),
         ObjectTypeExtension("User", << FieldDef("reviews", "Review", TRUE) >>) >>)

\* a service that declares the Mutation type and a Query type in two blocks
AccountsSdl ==
  Sdl(<< ObjectTypeDefinition("User",
           << FieldDef("id", "ID", FALSE), FieldDef("name", "String", FALSE) >>),
         ObjectTypeDefinition("Query", << FieldDef("me", "User", FALSE) >>),
         ObjectTypeExtension("Query", << FieldDef("users", "User", TRUE) >>),
         ObjectTypeDefinition("Mutation", << FieldDef("createUser", "User", FALSE) >>) >>)

\* a service that extends Mutation with a field returning its own type
ReviewsMutationSdl ==
  Sdl(<< ObjectTypeDefinition("Review",
           << FieldDef("id", "ID", FALSE), FieldDef("productId", "ID", FALSE),
              FieldDef("author", "User", FALSE) >>),
         ObjectTypeExtension("Query", << FieldDef("reviews", "Review", TRUE) >>),
         ObjectTypeExtension("Mutation", << FieldDef("addReview", "Review", FALSE) >>) >>)

\* a second service that declares Product (an ownership collision)
InventorySdl ==
  Sdl(<< ObjectTypeDefinition("Product",
           << FieldDef("id", "ID", FALSE), FieldDef("inStock", "String", FALSE) >>),
         ObjectTypeExtension("Query", << FieldDef("inventory", "Product", TRUE) >>) >>)

\* a service whose SDL has a top-level definition without fields
CatalogSdl ==
  Sdl(<< EnumTypeDefinition("Category"),
         ObjectTypeDefinition("Product",
           << FieldDef("id", "ID", FALSE), FieldDef("category", "Category", FALSE) >>),
         ObjectTypeExtension("Query", << FieldDef("topProducts", "Product", TRUE) >>) >>)

\* reviews declaring a stub of the User type, which the users service, later
\* in the list, declares as well
ReviewsStubSdl ==
  Sdl(<< ObjectTypeDefinition("Review",
           << FieldDef("id", "ID", FALSE), FieldDef("productId", "ID", FALSE),
              FieldDef("author", "User", FALSE) >>),
         ObjectTypeDefinition("User", << FieldDef("id", "ID", FALSE) >>),
         ObjectTypeExtension("Query", << FieldDef("reviews", "Review", TRUE) >>) >>)

Service(n, sdl) == [name |-> n, sdl |-> sdl]

\* the service lists (gatewayOpts.services) the model is run with
ScenarioServices ==
  << Service("reviews", ReviewsBasicSdl), Service("products", ProductsSdl) >>
FederationServices ==
  << Service("users", UsersSdl), Service("reviews", ReviewsSdl),
     Service("products", ProductsSdl) >>
MutationServices ==
  << Service("accounts", AccountsSdl), Service("reviews", ReviewsMutationSdl) >>
CollisionServices ==
  << Service("products", ProductsSdl), Service("reviews", ReviewsBasicSdl),
     Service("inventory", InventorySdl) >>
CatalogServices ==
  << Service("catalog", CatalogSdl), Service("reviews", ReviewsBasicSdl) >>
StubServices ==
  << Service("reviews", ReviewsStubSdl), Service("users", UsersSdl) >>

\* two services that both declare User, with names that are array indices
NumberedServices ==
  << Service("2", ReviewsStubSdl), Service("1", UsersSdl) >>

ServiceLists ==
  {ScenarioServices, FederationServices, MutationServices, CollisionServices,
   CatalogServices, StubServices}

\* the lists buildGateway is called with
BootLists == ServiceLists \cup {NumberedServices}

ServiceNames == UNION {{l[i].name : i \in DOMAIN l} : l \in BootLists}

(***************************************************************************)
(* createTypeMap: one key per type definition and per extension of Query;  *)
(* a later definition of the same name replaces the earlier entry.  It     *)
(* throws when parse() throws and when a type definition has no fields.    *)
(***************************************************************************)
FieldNames(fs) == {fs[i].name : i \in DOMAIN fs}

InTypeMap(d) ==
  isTypeDefinitionNode(d) \/ (isTypeExtensionNode(d) /\ d.name = "Query")

RECURSIVE TypeMapOf(_, _)
TypeMapOf(defs, typeMap) ==
  IF defs = << >> THEN Ok(typeMap)
  ELSE LET d == Head(defs) IN
    IF InTypeMap(d)
    THEN IF HasFields(d)
         THEN TypeMapOf(Tail(defs), Put(typeMap, d.name, FieldNames(d.fields)))
         ELSE Threw
    ELSE TypeMapOf(Tail(defs), typeMap)

createTypeMap(schemaDefinition) ==
  IF schemaDefinition.parses
  THEN TypeMapOf(schemaDefinition.definitions, EmptyMap)
  ELSE Threw

(***************************************************************************)
(* The composed schema (buildFederatedSchema): every type named by a       *)
(* definition or an extension of some SDL, with the fields of all of them. *)
(***************************************************************************)
AllDefinitions(sdls) ==
  UNION {Range(sdls[i].definitions) : i \in DOMAIN sdls}

\* the introspection type every graphql-js schema has
IntrospectionFields ==
  {FieldDef("name", "String", FALSE), FieldDef("ofType", "__Type", FALSE)}

buildFederatedSchema(sdls) ==
  LET defs == AllDefinitions(sdls)
      names == {d.name : d \in defs} \cup {"__Type"}
      fieldsOf(t) ==
        IF t = "__Type" THEN IntrospectionFields
        ELSE UNION {Range(d.fields) : d \in {e \in defs : e.name = t}}
      isObject(t) == t = "__Type" \/ \E d \in defs : d.name = t /\ HasFields(d)
  IN [t \in names |->
        [kind |-> IF isObject(t) THEN "object" ELSE "enum",
         fields |-> [n \in {f.name : f \in fieldsOf(t)} |->
                       CHOOSE f \in fieldsOf(t) : f.name = n]]]

isObjectType(schema, t) == t \in DOMAIN schema /\ schema[t].kind = "object"
isScalarType(schema, t) == t \in ScalarTypes
\* getNamedType(schema.getType(type).getFields()[fieldName].type)
getFieldType(schema, type, fieldName) == schema[type].fields[fieldName].type

isDefaultType(t) ==
  t \in {"__Schema", "__Type", "__Field", "__InputValue", "__EnumValue",
         "__Directive"}

(***************************************************************************)
(* The ownership index of buildGateway.  A service map is the sequence of  *)
(* the entries of serviceMap in the order of its keys.                     *)
(***************************************************************************)
NoService == "<null>"
UndefinedService == "<undefined>"

\* the property keys that are array indices, in ascending order
ArrayIndexNames == << "0", "1", "2", "3" >>
IsArrayIndex(name) == \E k \in DOMAIN ArrayIndexNames : ArrayIndexNames[k] = name
ArrayIndex(name) == CHOOSE k \in DOMAIN ArrayIndexNames : ArrayIndexNames[k] = name

\* the entries of an object in the opposite of the order of its keys
ObjectEntriesReversed(serviceMap) ==
  [r \in DOMAIN serviceMap |-> serviceMap[Len(serviceMap) + 1 - r]]

\* Object.entries(serviceMap), Object.values(serviceMap): the entries in the
\* order of the own property keys, which is the array indices in ascending
\* order, then the other keys in the order they were created (serviceMap is
\* indexed here by the position of the service in the configured list, which
\* is the order in which buildServiceMap creates the keys)
ObjectEntries(serviceMap) ==
  LET Before(p, q) ==
        IF IsArrayIndex(serviceMap[p].name)
        THEN IsArrayIndex(serviceMap[q].name) =>
               ArrayIndex(serviceMap[p].name) < ArrayIndex(serviceMap[q].name)
        ELSE ~IsArrayIndex(serviceMap[q].name) /\ p < q
      Rank(p) == 1 + Cardinality({q \in DOMAIN serviceMap : Before(q, p)})
  IN [r \in DOMAIN serviceMap |->
        serviceMap[CHOOSE p \in DOMAIN serviceMap : Rank(p) = r]]

RECURSIVE AssignTypes(_, _, _)
AssignTypes(types, service, typeToServiceMap) ==
  IF types = {} THEN typeToServiceMap
  ELSE LET t == CHOOSE x \in types : TRUE IN
    AssignTypes(types \ {t}, service, Put(typeToServiceMap, t, service))

RECURSIVE OwnersOf(_, _)
OwnersOf(serviceMap, typeToServiceMap) ==
  IF serviceMap = << >> THEN typeToServiceMap
  ELSE OwnersOf(Tail(serviceMap),
                AssignTypes(Head(serviceMap).types, Head(serviceMap).name,
                            typeToServiceMap))

buildTypeToServiceMap(serviceMap) ==
  Put(OwnersOf(serviceMap, EmptyMap), "Query", NoService)

\* typeToServiceMap[type]
OwnerOf(typeToServiceMap, t) ==
  IF t \in DOMAIN typeToServiceMap THEN typeToServiceMap[t] ELSE UndefinedService

(***************************************************************************)
(* defineResolvers: the resolver attached to every field of every object   *)
(* type of the composed schema.  serviceMap is indexed by position; the    *)
(* lookup by name gives the entry of that name.                            *)
(***************************************************************************)
HasService(serviceMap, n) == \E i \in DOMAIN serviceMap : serviceMap[i].name = n
ServiceNamed(serviceMap, n) ==
  serviceMap[CHOOSE i \in DOMAIN serviceMap : serviceMap[i].name = n]

NoResolver == [kind |-> "none", service |-> NoService, typeForFragment |-> NoName]
makeResolveQuery(service) ==
  [kind |-> "query", service |-> service, typeForFragment |-> NoName]
makeReferenceResolver(service) ==
  [kind |-> "reference", service |-> service, typeForFragment |-> NoName]

\* a wiring that leaves the extension field without a resolver
makeFieldResolverUnattached(service, typeForFragment) == NoResolver

makeFieldResolver(service, typeForFragment) ==
  [kind |-> "field", service |-> service, typeForFragment |-> typeForFragment]

\* a wiring that confuses the fields a service declares with those it
\* receives by extension
ResolverOfFieldSwapped(schema, typeToServiceMap, serviceMap, type, fieldName) ==
  LET fieldType == getFieldType(schema, type, fieldName)
      serviceForType == OwnerOf(typeToServiceMap, type)
      serviceForFieldType == OwnerOf(typeToServiceMap, fieldType)
  IN IF isScalarType(schema, fieldType) THEN Ok(NoResolver)
     ELSE IF serviceForFieldType = serviceForType THEN Ok(NoResolver)
     ELSE IF serviceForType = NoService
       THEN Ok(makeResolveQuery(serviceForFieldType))
     ELSE IF ~HasService(serviceMap, serviceForType) THEN Threw
     ELSE IF type \notin DOMAIN ServiceNamed(serviceMap, serviceForType).typeMap
       THEN Threw
     ELSE IF fieldName \notin ServiceNamed(serviceMap, serviceForType).typeMap[type]
       THEN Ok(makeReferenceResolver(serviceForFieldType))
     ELSE Ok(makeFieldResolver(serviceForFieldType, type))

\* field.resolve of one field, or Threw when the wiring reads a property of
\* an undefined service
ResolverOfField(schema, typeToServiceMap, serviceMap, type, fieldName) ==
  LET fieldType == getFieldType(schema, type, fieldName)
      serviceForType == OwnerOf(typeToServiceMap, type)
      serviceForFieldType == OwnerOf(typeToServiceMap, fieldType)
  IN IF isScalarType(schema, fieldType) THEN Ok(NoResolver)
     ELSE IF serviceForFieldType = serviceForType THEN Ok(NoResolver)
     ELSE IF serviceForType = NoService
       THEN Ok(makeResolveQuery(serviceForFieldType))
     ELSE IF ~HasService(serviceMap, serviceForType) THEN Threw
     ELSE IF type \notin DOMAIN ServiceNamed(serviceMap, serviceForType).typeMap
       THEN Threw
     ELSE IF fieldName \in ServiceNamed(serviceMap, serviceForType).typeMap[type]
       THEN Ok(makeReferenceResolver(serviceForFieldType))
     ELSE Ok(makeFieldResolver(serviceForFieldType, type))

\* the fields defineResolvers visits
ResolvableFields(schema) ==
  {p \in (DOMAIN schema) \X UNION {DOMAIN schema[x].fields : x \in DOMAIN schema} :
     /\ isObjectType(schema, p[1])
     /\ ~isDefaultType(p[1])
     /\ p[2] \in DOMAIN schema[p[1]].fields}

defineResolvers(schema, typeToServiceMap, serviceMap) ==
  LET fields == ResolvableFields(schema)
      one(p) == ResolverOfField(schema, typeToServiceMap, serviceMap, p[1], p[2])
  IN IF \E p \in fields : one(p).threw THEN Threw
     ELSE Ok([p \in fields |-> one(p).value])

\* the rest of buildGateway once the service map is built
GatewayOf(serviceMap) ==
  LET serviceSDLs == [i \in DOMAIN serviceMap |->
                        ObjectEntries(serviceMap)[i].schemaDefinition]
      schema == buildFederatedSchema(serviceSDLs)
      typeToServiceMap == buildTypeToServiceMap(ObjectEntries(serviceMap))
      resolvers == defineResolvers(schema, typeToServiceMap, serviceMap)
  IN IF resolvers.threw THEN Threw
     ELSE Ok([schema |-> schema, serviceMap |-> serviceMap,
              serviceSDLs |-> serviceSDLs,
              typeToServiceMap |-> typeToServiceMap,
              resolvers |-> resolvers.value])

(***************************************************************************)
(* serviceConfig.request: the promise of one HTTP request.                 *)
(*   - the transport reports an error: the promise is rejected;            *)
(*   - a response arrives: with status 200 the body is collected, with any *)
(*     other status the callback returns without settling the promise;     *)
(*   - the body has ended: JSON.parse throws inside the 'end' listener (the *)
(*     promise is left pending), or the promise is resolved.               *)
(***************************************************************************)
StatusCodes == {200, 500}

requestOnError == "rejected"
requestOnResponse(statusCode) ==
  IF statusCode = 200 THEN "streaming" ELSE "ignored"
requestOnEnd(body) == IF body.json THEN "resolved" ELSE "parseThrew"

JsonBody(v) == [json |-> TRUE, value |-> v]
NotJsonBody == [json |-> FALSE, value |-> JUndefined]

\* v.a.b.c for a path <<a, b, c>>
RECURSIVE ReadPath(_, _)
ReadPath(v, path) ==
  IF path = << >> THEN Ok(v)
  ELSE IF ~CanRead(v) THEN Threw
  ELSE ReadPath(GetProp(v, Head(path)), Tail(path))

(***************************************************************************)
(* Selection rewriting.                                                    *)
(***************************************************************************)
\* service.typeMap[type].has(selection.name.value): a TypeError when the
\* service has no entry for the type or the selection has no name
CannotFilter(selections, service, type) ==
  /\ selections # << >>
  /\ \/ type \notin DOMAIN service.typeMap
     \/ \E i \in DOMAIN selections : selections[i].kind = "InlineFragment"

\* the gateway module's rewriter: nested selections are filtered with the
\* type of the outermost field
RECURSIVE removeNonServiceTypeFieldsOfGateway(_, _, _)
removeNonServiceTypeFieldsOfGateway(selections, service, type) ==
  IF CannotFilter(selections, service, type) THEN Threw
  ELSE
    LET kept == SelectSeq(selections, LAMBDA x : x.name \in service.typeMap[type])
        sub(x) == removeNonServiceTypeFieldsOfGateway(x.selections, service, type)
        bad == \E i \in DOMAIN kept : kept[i].selections # << >> /\ sub(kept[i]).threw
    IN IF bad THEN Threw
       ELSE Ok([i \in DOMAIN kept |->
                  IF kept[i].selections # << >>
                  THEN [kept[i] EXCEPT !.selections = sub(kept[i]).value]
                  ELSE kept[i]] \o << TypenameField >>)

\* a schema argument that was not passed
UndefinedSchema == [x \in {"<undefined>"} |-> [kind |-> "undefined", fields |-> EmptyMap]]

\* make-resolver.js: fragment spreads are kept, nested selections are
\* filtered with the return type of their field
RECURSIVE removeNonServiceTypeFields(_, _, _, _)
removeNonServiceTypeFields(selections, service, type, schema) ==
  IF CannotFilter(selections, service, type) THEN Threw
  ELSE
    LET kept == SelectSeq(selections,
                  LAMBDA x : x.name \in service.typeMap[type] \/ x.kind = "FragmentSpread")
        sub(x) ==
          IF schema = UndefinedSchema THEN Threw
          ELSE removeNonServiceTypeFields(x.selections, service,
                 getFieldType(schema, type, x.name), schema)
        bad == \E i \in DOMAIN kept : kept[i].selections # << >> /\ sub(kept[i]).threw
    IN IF bad THEN Threw
       ELSE Ok([i \in DOMAIN kept |->
                  IF kept[i].selections # << >>
                  THEN [kept[i] EXCEPT !.selections = sub(kept[i]).value]
                  ELSE kept[i]] \o << TypenameField >>)

(***************************************************************************)
(* Operation synthesis.  A document is an operation definition and the     *)
(* fragment definitions printed after it.                                  *)
(***************************************************************************)
VariableDefinition(n, t) == [name |-> n, type |-> t]
RepresentationsDefinition == VariableDefinition("representations", "[_Any!]!")

OperationDefinition(operation, name, variableDefinitions, selections) ==
  [operation |-> operation, name |-> name,
   variableDefinitions |-> variableDefinitions, selections |-> selections]

\* "Query_" + fieldName
QueryName(fieldName) == << "Query_", fieldName >>
EntitiesQueryName == << "EntitiesQuery" >>

\* the gateway module: always a query, no arguments, no variables
createQueryOperationOfGateway(fieldName, selections) ==
  OperationDefinition("query", QueryName(fieldName), << >>,
    << Field(fieldName, << >>, selections) >>)

EntitiesField(inlineFragmentOnType, selections) ==
  Field("_entities",
        << Argument("representations", Variable("representations")) >>,
        << TypenameField, InlineFragment(inlineFragmentOnType, selections) >>)

createEntityReferenceResolverOperationOfGateway(inlineFragmentOnType, selections) ==
  OperationDefinition("query", EntitiesQueryName, << RepresentationsDefinition >>,
    << EntitiesField(inlineFragmentOnType, selections) >>)

createFieldResolverOperationOfGateway(fragmentType, fieldName, selections) ==
  createEntityReferenceResolverOperationOfGateway(fragmentType,
    << Field(fieldName, << >>, selections) >>)

\* make-resolver.js; o is the options object createOperation is called with
createQueryOperation(o) ==
  OperationDefinition(o.operation, QueryName(o.fieldName), o.variableDefinitions,
    << Field(o.fieldName, o.args, o.selections) >>)

createEntityReferenceResolverOperation(o) ==
  OperationDefinition("query", EntitiesQueryName,
    o.variableDefinitions \o << RepresentationsDefinition >>,
    << EntitiesField(o.returnType, o.selections) >>)

createFieldResolverOperation(o) ==
  createEntityReferenceResolverOperation(
    [o EXCEPT !.returnType = o.parentType,
              !.selections = << Field(o.fieldName, << >>, o.selections) >>])

(***************************************************************************)
(* Variable and fragment forwarding (make-resolver.js).                    *)
(***************************************************************************)
\* the names of the arguments of a node whose value is a variable
collectArgumentNames(fieldNode) ==
  LET withVariable == SelectSeq(fieldNode.arguments, LAMBDA a : a.value.kind = "Variable")
  IN [i \in DOMAIN withVariable |-> withVariable[i].name]

ArgumentNames(fieldNode) == Range(collectArgumentNames(fieldNode))

RECURSIVE collectArgumentsWithVariableValues(_)
collectArgumentsWithVariableValues(selections) ==
  UNION {ArgumentNames(selections[i])
           \cup collectArgumentsWithVariableValues(selections[i].selections) :
         i \in DOMAIN selections}

RECURSIVE getFragmentNamesInSelection(_)
getFragmentNamesInSelection(selections) ==
  IF selections = << >> THEN << >>
  ELSE LET x == Head(selections) IN
    (IF x.kind = "FragmentSpread" THEN << x.name >> ELSE << >>)
      \o getFragmentNamesInSelection(x.selections)
      \o getFragmentNamesInSelection(Tail(selections))

\* the depth of recursion at which the JavaScript stack overflows
StackLimit == 4

\* the recursive call passes no schema; every call starts a visited set of
\* its own
RECURSIVE collectFragmentsToInclude(_, _, _, _, _)
RECURSIVE CollectFrom(_, _, _, _, _, _)
CollectFrom(usedFragments, visitedFragments, fragments, service, schema, depth) ==
  IF usedFragments = << >> THEN Ok(<< >>)
  ELSE
    LET fragmentName == Head(usedFragments)
        visited == visitedFragments \cup {fragmentName}
    IN IF fragmentName \notin DOMAIN fragments THEN Threw
       ELSE
         LET fragment == fragments[fragmentName]
             selections == removeNonServiceTypeFields(fragment.selections, service,
                             fragment.typeCondition, schema)
         IN IF selections.threw THEN Threw
            ELSE
              LET fragmentsInSelections ==
                    SelectSeq(getFragmentNamesInSelection(selections.value),
                              LAMBDA n : n \notin visited)
                  nested == collectFragmentsToInclude(fragmentsInSelections, fragments,
                              service, UndefinedSchema, depth + 1)
                  rest == CollectFrom(Tail(usedFragments), visited, fragments, service,
                            schema, depth)
              IN IF nested.threw THEN Threw
                 ELSE IF rest.threw THEN Threw
                 ELSE Ok(<< [fragment EXCEPT !.selections = selections.value] >>
                           \o nested.value \o rest.value)

collectFragmentsToInclude(usedFragments, fragments, service, schema, depth) ==
  IF depth > StackLimit THEN Threw
  ELSE CollectFrom(usedFragments, {}, fragments, service, schema, depth)

(***************************************************************************)
(* The delegating resolvers.  A resolver invocation either throws or sends *)
(* one request [service, query, variables]; `info` is the GraphQLResolveInfo*)
(* of the invocation.                                                      *)
(***************************************************************************)
NoVariables == [x \in {} |-> JNull]
Request(service, operation, fragments, variables) ==
  [service |-> service,
   query |-> [operation |-> operation, fragments |-> fragments],
   variables |-> variables]

\* [parent[fieldName]]: a TypeError when parent is null or undefined
ReferenceRepresentations(parent, fieldName) ==
  IF CanRead(parent)
  THEN Ok(<< JsonElement(GetProp(parent, fieldName)) >>)
  ELSE Threw

\* a resolver that forgets the parent
FieldRepresentationsWithoutParent(parent) == Ok(<< >>)

\* [parent]
FieldRepresentations(parent) == Ok(<< JsonElement(parent) >>)

\* the three resolvers of the gateway module
ResolveQueryOfGateway(service, info) ==
  LET selections == removeNonServiceTypeFieldsOfGateway(
                      info.fieldNode.selections, service, info.returnType)
  IN IF info.fieldNode.selections = << >> THEN Threw
     ELSE IF selections.threw THEN Threw
     ELSE Ok(Request(service.name,
               createQueryOperationOfGateway(info.fieldName, selections.value),
               << >>, NoVariables))

FieldResolverOfGateway(service, typeForFragment, parent, info) ==
  LET selections == removeNonServiceTypeFieldsOfGateway(
                      info.fieldNode.selections, service, info.returnType)
      representations == FieldRepresentations(parent)
  IN IF info.fieldNode.selections = << >> THEN Threw
     ELSE IF selections.threw THEN Threw
     ELSE Ok(Request(service.name,
               createFieldResolverOperationOfGateway(typeForFragment, info.fieldName,
                                                     selections.value),
               << >>,
               Put(NoVariables, "representations", JArr(representations.value))))

ReferenceResolverOfGateway(service, parent, info) ==
  LET selections == removeNonServiceTypeFieldsOfGateway(
                      info.fieldNode.selections, service, info.returnType)
      representations == ReferenceRepresentations(parent, info.fieldName)
  IN IF info.fieldNode.selections = << >> THEN Threw
     ELSE IF selections.threw THEN Threw
     ELSE IF representations.threw THEN Threw
     ELSE Ok(Request(service.name,
               createEntityReferenceResolverOperationOfGateway(info.returnType,
                                                               selections.value),
               << >>,
               Put(NoVariables, "representations", JArr(representations.value))))

\* makeResolver of make-resolver.js; opts = [service, kind, isQuery, isReference]
CreateOperation(kind, o) ==
  IF kind = "query" THEN createQueryOperation(o)
  ELSE IF kind = "reference" THEN createEntityReferenceResolverOperation(o)
  ELSE createFieldResolverOperation(o)

makeResolver(opts, parent, info) ==
  LET service == opts.service
      selections == removeNonServiceTypeFields(info.fieldNode.selections, service,
                      info.returnType, info.schema)
      variableNamesToDefine ==
        collectArgumentsWithVariableValues(selections.value)
          \cup ArgumentNames(info.fieldNode)
      variablesToDefine ==
        SelectSeq(info.operation.variableDefinitions,
                  LAMBDA d : d.name \in variableNamesToDefine)
      operation ==
        CreateOperation(opts.kind,
          [returnType |-> info.returnType, parentType |-> info.parentType,
           fieldName |-> info.fieldName, selections |-> selections.value,
           variableDefinitions |-> variablesToDefine,
           args |-> info.fieldNode.arguments,
           operation |-> info.operation.operation])
      usedFragments == getFragmentNamesInSelection(selections.value)
      fragmentsToDefine ==
        collectFragmentsToInclude(usedFragments, info.fragments, service,
                                  info.schema, 1)
      forwarded == DOMAIN info.variableValues \cap variableNamesToDefine
      variables == [n \in forwarded |-> info.variableValues[n]]
      representations ==
        IF opts.isReference THEN ReferenceRepresentations(parent, info.fieldName)
        ELSE FieldRepresentations(parent)
  IN IF info.fieldNode.selections = << >> THEN Threw
     ELSE IF selections.threw THEN Threw
     ELSE IF fragmentsToDefine.threw THEN Threw
     ELSE IF opts.isReference \/ ~opts.isQuery
       THEN IF representations.threw THEN Threw
            ELSE Ok(Request(service.name, operation, fragmentsToDefine.value,
                      Put(variables, "representations", JArr(representations.value))))
     ELSE Ok(Request(service.name, operation, fragmentsToDefine.value, variables))

\* a field resolver that resolves with the whole entity
transformDataWithoutField(kind, fieldName, json) ==
  IF kind = "query" THEN ReadPath(json, << "data", fieldName >>)
  ELSE ReadPath(json, << "data", "_entities", 1 >>)

\* response => transformData(response): the value the field resolves with,
\* or Threw when a property of null or undefined is read
transformData(kind, fieldName, json) ==
  IF kind = "query" THEN ReadPath(json, << "data", fieldName >>)
  ELSE IF kind = "reference" THEN ReadPath(json, << "data", "_entities", 1 >>)
  ELSE ReadPath(json, << "data", "_entities", 1, fieldName >>)

(***************************************************************************)
(* The client requests the gateway is run with.                            *)
(***************************************************************************)
NoFragments == [x \in {} |-> FragmentDefinition("", "", << >>)]
NoValues == [x \in {} |-> JNull]
Leaf(n) == Field(n, << >>, << >>)

ClientRequest(operation, variableDefinitions, selections, fragments) ==
  [operation |-> operation, variableDefinitions |-> variableDefinitions,
   selections |-> selections, fragments |-> fragments,
   variableValues |->
     [n \in {variableDefinitions[i].name : i \in DOMAIN variableDefinitions}
        |-> JStr("1")]]

\* { reviews { id product { name } } }
ScenarioRequest ==
  ClientRequest("query", << >>,
    << Field("reviews", << >>,
         << Leaf("id"), Field("product", << >>, << Leaf("name") >>) >>) >>,
    NoFragments)

\* { reviews { id author { id name } } }
AuthorRequest ==
  ClientRequest("query", << >>,
    << Field("reviews", << >>,
         << Leaf("id"), Field("author", << >>, << Leaf("id"), Leaf("name") >>) >>) >>,
    NoFragments)

\* { reviews { id author { id } product { name } } }
ReviewDetailsRequest ==
  ClientRequest("query", << >>,
    << Field("reviews", << >>,
         << Leaf("id"), Field("author", << >>, << Leaf("id") >>),
            Field("product", << >>, << Leaf("name") >>) >>) >>,
    NoFragments)

\* { me { id address { city } reviews { id product { name } } } }
NestedRequest ==
  ClientRequest("query", << >>,
    << Field("me", << >>,
         << Leaf("id"), Field("address", << >>, << Leaf("city") >>),
            Field("reviews", << >>,
              << Leaf("id"), Field("product", << >>, << Leaf("name") >>) >>) >>) >>,
    NoFragments)

\* query ($userId: ID) { me(id: $userId) { name } }
RenamedVariableRequest ==
  ClientRequest("query", << VariableDefinition("userId", "ID") >>,
    << Field("me", << Argument("id", Variable("userId")) >>, << Leaf("name") >>) >>,
    NoFragments)

\* query ($id: ID, $first: ID) { me(id: $id) { name reviews(first: $first) { id } } }
VariablesRequest ==
  ClientRequest("query",
    << VariableDefinition("id", "ID"), VariableDefinition("first", "ID") >>,
    << Field("me", << Argument("id", Variable("id")) >>,
         << Leaf("name"),
            Field("reviews", << Argument("first", Variable("first")) >>,
                  << Leaf("id") >>) >>) >>,
    NoFragments)

\* { me(id: 1) { name } }
LiteralArgumentRequest ==
  ClientRequest("query", << >>,
    << Field("me", << Argument("id", IntValue("1")) >>, << Leaf("name") >>) >>,
    NoFragments)

\* query ($id: ID) { me(filter: {id: $id}) { name(lang: $id) } }
ObjectArgumentRequest ==
  ClientRequest("query", << VariableDefinition("id", "ID") >>,
    << Field("me", << Argument("filter", ObjectValue("id")) >>,
         << Field("name", << Argument("lang", Variable("id")) >>, << >>) >>) >>,
    NoFragments)

\* query ($first: ID) { topProducts(first: $first) { ...F } }
\* fragment F on Product { id name }
FragmentRequest ==
  ClientRequest("query", << VariableDefinition("first", "ID") >>,
    << Field("topProducts", << Argument("first", Variable("first")) >>,
         << FragmentSpread("F") >>) >>,
    [n \in {"F"} |-> FragmentDefinition("F", "Product", << Leaf("id"), Leaf("name") >>)])

\* { reviews { ... on Review { id } } }
InlineFragmentRequest ==
  ClientRequest("query", << >>,
    << Field("reviews", << >>,
         << InlineFragment("Review", << Leaf("id") >>) >>) >>,
    NoFragments)

\* { reviews { ...R ...R } }
\* fragment R on Review { id ...S }  fragment S on Review { productId }
NestedFragmentsRequest ==
  ClientRequest("query", << >>,
    << Field("reviews", << >>, << FragmentSpread("R"), FragmentSpread("R") >>) >>,
    [n \in {"R", "S"} |->
       IF n = "R"
       THEN FragmentDefinition("R", "Review", << Leaf("id"), FragmentSpread("S") >>)
       ELSE FragmentDefinition("S", "Review", << Leaf("productId") >>)])

\* query ($fmt: ID) { reviews { ...P } }
\* fragment P on Review { productId(format: $fmt) }
FragmentVariableRequest ==
  ClientRequest("query", << VariableDefinition("fmt", "ID") >>,
    << Field("reviews", << >>, << FragmentSpread("P") >>) >>,
    [n \in {"P"} |->
       FragmentDefinition("P", "Review",
         << Field("productId", << Argument("format", Variable("fmt")) >>, << >>) >>)])

\* query ($representations: ID) {
\*   reviews { id(representations: $representations)
\*             product { name(representations: $representations) } } }
RepresentationsVariableRequest ==
  ClientRequest("query", << VariableDefinition("representations", "ID") >>,
    << Field("reviews", << >>,
         << Field("id", << Argument("representations", Variable("representations")) >>,
                  << >>),
            Field("product", << >>,
              << Field("name",
                   << Argument("representations", Variable("representations")) >>,
                   << >>) >>) >>) >>,
    NoFragments)

\* mutation { createUser { id } addReview { id } }
MutationRequest ==
  ClientRequest("mutation", << >>,
    << Field("createUser", << >>, << Leaf("id") >>),
       Field("addReview", << >>, << Leaf("id") >>) >>,
    NoFragments)

ClientRequests ==
  {ScenarioRequest, AuthorRequest, ReviewDetailsRequest, NestedRequest,
   RenamedVariableRequest,
   VariablesRequest, LiteralArgumentRequest, ObjectArgumentRequest,
   FragmentRequest, InlineFragmentRequest, NestedFragmentsRequest,
   FragmentVariableRequest, RepresentationsVariableRequest, MutationRequest}

(***************************************************************************)
(* The bodies a service may answer the introspection query with.           *)
(***************************************************************************)
JSdl(sdl) == [j |-> "sdl", sdl |-> sdl]
ServiceInfoBody(sdl) ==
  JsonBody(JObj([data |-> JObj([_service |-> JObj([sdl |-> JSdl(sdl)])])]))

IntrospectionBodies(service) ==
  {ServiceInfoBody(service.sdl),
   ServiceInfoBody(UnparseableSdl),
   JsonBody(JObj([data |-> JObj([_service |-> JObj(EmptyMap)])])),
   JsonBody(JObj([errors |-> JArr(<< JStr("introspection refused") >>)])),
   NotJsonBody}

\* init(): the SDL and the type map of a resolved introspection response
initOf(json) ==
  LET sdl == ReadPath(json, << "data", "_service", "sdl" >>) IN
    IF sdl.threw THEN Threw
    ELSE IF sdl.value.j # "sdl" THEN Threw
    ELSE LET typeMap == createTypeMap(sdl.value.sdl) IN
      IF typeMap.threw THEN Threw
      ELSE Ok([schemaDefinition |-> sdl.value.sdl, typeMap |-> typeMap.value])

(***************************************************************************)
(* State.                                                                  *)
(***************************************************************************)
VARIABLES
  services,        \* gatewayOpts.services, << >> before buildGateway is called
  phase,           \* phase[i]: the introspection request of services[i]
  serviceMap,      \* serviceMap[i]: the entry of services[i]
  pmap,            \* the state of p-map
  gatewayPromise,  \* the promise buildGateway returned
  gateway,         \* the value it resolved with
  wiring,          \* which resolvers the fields carry: those of the gateway
                   \* module ("gateway") or makeResolver ("makeResolver")
  request,         \* the client request being executed
  calls,           \* the resolver invocations of the request, in order
  sent,            \* the requests sent to the services, in order
  opts,            \* the options the routes are registered with
  httpBody,        \* the body of the HTTP request being handled
  execs,           \* execs[i]: the execution of the i-th request of the body
  saved,           \* the calls of saveQuery, in order
  reply,           \* the promise the route handler returned
  response,        \* the HTTP response of the error handler
  forwarded        \* the result of a call of collectFragmentsToInclude

bootVars == << services, phase, serviceMap, pmap, gatewayPromise, gateway >>

\* p-map's concurrency option
Concurrency == 8

NoGateway == [schema |-> EmptyMap, serviceMap |-> << >>, serviceSDLs |-> << >>,
              typeToServiceMap |-> EmptyMap, resolvers |-> EmptyMap]

\* an entry of serviceMap before its mapper has run
ServiceConfig(service) ==
  [name |-> service.name, initialized |-> FALSE,
   schemaDefinition |-> UnparseableSdl, typeMap |-> EmptyMap, types |-> {}]

execVars == << wiring, request, calls, sent >>

NoRequest == ClientRequest("query", << >>, << >>, NoFragments)

routeVars == << opts, httpBody, execs, saved, reply, response >>

NoProvider ==
  [configured |-> FALSE, getHash |-> FALSE, getHashForQuery |-> FALSE]
NoOpts == [allowBatchedQueries |-> FALSE, persistedQueryProvider |-> NoProvider]
NoReply == [state |-> "none"]
NoResponse == [sent |-> FALSE]

\* no HTTP request is being handled
RouteIdle ==
  /\ opts = NoOpts
  /\ httpBody = << >>
  /\ execs = << >>
  /\ saved = << >>
  /\ reply = NoReply
  /\ response = NoResponse

NotForwarded == [state |-> "none"]

restVars == << routeVars, forwarded >>

RestIdle == RouteIdle /\ forwarded = NotForwarded

ExecIdle ==
  /\ request = NoRequest
  /\ calls = << >>
  /\ sent = << >>

BootInit ==
  /\ wiring = "gateway"
  /\ ExecIdle
  /\ RestIdle
  /\ services = << >>
  /\ phase = << >>
  /\ serviceMap = << >>
  /\ pmap = [resolvingCount |-> 0, nextIndex |-> 1, isRejected |-> FALSE,
             isIterableDone |-> FALSE, settled |-> "pending"]
  /\ gatewayPromise = "notCalled"
  /\ gateway = NoGateway

\* p-map's next(): start the mapper of the next service, or resolve when the
\* input is exhausted and nothing is being resolved.  st = [pmap, phase]
pmapNext(st, n) ==
  IF st.pmap.isRejected THEN st
  ELSE IF st.pmap.nextIndex > n
    THEN [st EXCEPT !.pmap.isIterableDone = TRUE,
                    !.pmap.settled =
                       IF st.pmap.resolvingCount = 0 /\ @ = "pending"
                       THEN "resolved" ELSE @]
  ELSE [st EXCEPT !.pmap.resolvingCount = @ + 1,
                  !.pmap.nextIndex = @ + 1,
                  !.phase[st.pmap.nextIndex] = "inflight"]

\* a p-map that ignores its concurrency option
RECURSIVE pmapStartAll(_, _, _)
pmapStartAll(st, n, i) ==
  LET after == pmapNext(st, n) IN
    IF after.pmap.isIterableDone \/ after.pmap.isRejected THEN after
    ELSE pmapStartAll(after, n, i)

\* for (let i = 0; i < concurrency; i++) { next(); if (isIterableDone) break }
RECURSIVE pmapStart(_, _, _)
pmapStart(st, n, i) ==
  IF i = 0 THEN st
  ELSE LET after == pmapNext(st, n) IN
    IF after.pmap.isIterableDone THEN after ELSE pmapStart(after, n, i - 1)

\* the continuation of buildGateway after `await pmap(...)`
SettleGateway(pm, sm) ==
  /\ gatewayPromise' =
       IF gatewayPromise # "pending" THEN gatewayPromise
       ELSE IF pm.settled = "rejected" THEN "rejected"
       ELSE IF pm.settled = "resolved"
         THEN IF GatewayOf(sm).threw THEN "rejected" ELSE "resolved"
       ELSE "pending"
  /\ gateway' =
       IF gatewayPromise = "pending" /\ pm.settled = "resolved" /\ ~GatewayOf(sm).threw
       THEN GatewayOf(sm).value ELSE gateway

\* buildGateway(gatewayOpts) up to its first await
BuildGateway(list) ==
  /\ gatewayPromise = "notCalled"
  /\ LET n == Len(list)
         st == pmapStart([pmap |-> pmap, phase |-> [i \in 1..n |-> "idle"]],
                         n, Concurrency)
     IN /\ services' = list
        /\ serviceMap' = [i \in 1..n |-> ServiceConfig(list[i])]
        /\ phase' = st.phase
        /\ pmap' = st.pmap
        /\ gatewayPromise' = "pending"
        /\ UNCHANGED gateway

\* the mapper of services[i] has thrown: p-map rejects (stopOnError)
MapperRejected(i, newPhase) ==
  /\ phase' = [phase EXCEPT ![i] = newPhase]
  /\ pmap' = [pmap EXCEPT !.isRejected = TRUE,
                          !.settled = IF @ = "pending" THEN "rejected" ELSE @]
  /\ SettleGateway(pmap', serviceMap)
  /\ UNCHANGED << services, serviceMap >>

\* req.on('error', done): the transport reports an error
IntrospectionError(i) ==
  /\ i \in DOMAIN phase
  /\ phase[i] = "inflight"
  /\ requestOnError = "rejected"
  /\ MapperRejected(i, "rejected")

\* req.on('response', ...): the response head arrives
IntrospectionResponse(i, statusCode) ==
  /\ i \in DOMAIN phase
  /\ phase[i] = "inflight"
  /\ phase' = [phase EXCEPT ![i] = requestOnResponse(statusCode)]
  /\ UNCHANGED << services, serviceMap, pmap, gatewayPromise, gateway >>

\* response.stream.on('end', ...): the body is complete
IntrospectionEnd(i, body) ==
  /\ i \in DOMAIN phase
  /\ phase[i] = "streaming"
  /\ IF requestOnEnd(body) # "resolved"
     THEN /\ phase' = [phase EXCEPT ![i] = requestOnEnd(body)]
          /\ UNCHANGED << services, serviceMap, pmap, gatewayPromise, gateway >>
     ELSE IF initOf(body.value).threw
     THEN MapperRejected(i, "rejected")
     ELSE LET r == initOf(body.value).value
              st == pmapNext([pmap |-> [pmap EXCEPT !.resolvingCount = @ - 1],
                              phase |-> [phase EXCEPT ![i] = "done"]],
                             Len(services))
          IN /\ serviceMap' =
                  [serviceMap EXCEPT ![i] =
                     [name |-> @.name, initialized |-> TRUE,
                      schemaDefinition |-> r.schemaDefinition,
                      typeMap |-> r.typeMap, types |-> DOMAIN r.typeMap]]
             /\ phase' = st.phase
             /\ pmap' = st.pmap
             /\ SettleGateway(st.pmap, serviceMap')
             /\ UNCHANGED services

BootNext ==
  \/ \E list \in BootLists : BuildGateway(list) /\ UNCHANGED << execVars, restVars >>
  \/ \E i \in DOMAIN services : IntrospectionError(i) /\ UNCHANGED << execVars, restVars >>
  \/ \E i \in DOMAIN services, statusCode \in StatusCodes :
       IntrospectionResponse(i, statusCode) /\ UNCHANGED << execVars, restVars >>
  \/ \E i \in DOMAIN services : \E body \in IntrospectionBodies(services[i]) :
       IntrospectionEnd(i, body) /\ UNCHANGED << execVars, restVars >>

(***************************************************************************)
(* A bootstrap with more services than p-map's concurrency.  Every service *)
(* declares one type of its own and one Query field.  The first and the    *)
(* last service may answer the introspection in every way, the others      *)
(* answer it with their SDL, in any order.                                 *)
(***************************************************************************)
MaxExtraServices == 1

FanOutNames == << "s1", "s2", "s3", "s4", "s5", "s6", "s7", "s8", "s9", "s10", "s11" >>

FanOutSdl(n) ==
  Sdl(<< ObjectTypeDefinition(n, << FieldDef("id", "ID", FALSE) >>),
         ObjectTypeExtension("Query", << FieldDef(n, n, FALSE) >>) >>)

FanOutServices ==
  [i \in 1..(Concurrency + MaxExtraServices) |->
     Service(FanOutNames[i], FanOutSdl(FanOutNames[i]))]

Unreliable(i) == i \in {1, Len(services)}

FanOutNext ==
  \/ BuildGateway(FanOutServices) /\ UNCHANGED << execVars, restVars >>
  \/ \E i \in {j \in DOMAIN services : Unreliable(j)} :
       IntrospectionError(i) /\ UNCHANGED << execVars, restVars >>
  \/ \E i \in DOMAIN services :
       \E statusCode \in (IF Unreliable(i) THEN StatusCodes ELSE {200}) :
         IntrospectionResponse(i, statusCode) /\ UNCHANGED << execVars, restVars >>
  \/ \E i \in DOMAIN services :
       \E body \in (IF Unreliable(i) THEN IntrospectionBodies(services[i])
                    ELSE {ServiceInfoBody(services[i].sdl)}) :
         IntrospectionEnd(i, body) /\ UNCHANGED << execVars, restVars >>

vars == << services, phase, serviceMap, pmap, gatewayPromise, gateway,
          wiring, request, calls, sent,
          opts, httpBody, execs, saved, reply, response, forwarded >>

SpecBoot == BootInit /\ [][BootNext]_vars

SpecFanOut == BootInit /\ [][FanOutNext]_vars

(***************************************************************************)
(* The executor (the GraphQL engine the resolvers are attached to).  It    *)
(* calls the resolver of every field that has one, with the value of the   *)
(* enclosing object as parent, and reads the other fields from the parent. *)
(***************************************************************************)
RootType(operation) == IF operation = "mutation" THEN "Mutation" ELSE "Query"

\* the fields of a selection set, fragments expanded, each fragment once
RECURSIVE CollectFields(_, _, _)
CollectFields(selections, fragments, visited) ==
  IF selections = << >> THEN << >>
  ELSE
    LET x == Head(selections)
        rest(v) == CollectFields(Tail(selections), fragments, v)
    IN IF x.kind = "Field" THEN << x >> \o rest(visited)
       ELSE IF x.kind = "InlineFragment"
         THEN CollectFields(x.selections, fragments, visited) \o rest(visited)
       ELSE IF x.name \in visited \/ x.name \notin DOMAIN fragments
         THEN rest(visited)
       ELSE CollectFields(fragments[x.name].selections, fragments,
                          visited \cup {x.name})
              \o rest(visited \cup {x.name})

\* validation: every field of the request is a field of the composed schema
RECURSIVE ValidSelections(_, _, _, _)
ValidSelections(selections, type, schema, fragments) ==
  LET fields == CollectFields(selections, fragments, {}) IN
    /\ type \in DOMAIN schema
    /\ \A i \in DOMAIN fields :
         \/ fields[i].name = "__typename"
         \/ /\ fields[i].name \in DOMAIN schema[type].fields
            /\ LET fieldType == getFieldType(schema, type, fields[i].name) IN
                 IF isScalarType(schema, fieldType)
                 THEN fields[i].selections = << >>
                 ELSE /\ fields[i].selections # << >>
                      /\ ValidSelections(fields[i].selections, fieldType, schema,
                                         fragments)

ValidRequest(req, schema) ==
  /\ req.selections # << >>
  /\ ValidSelections(req.selections, RootType(req.operation), schema, req.fragments)

\* an invocation the executor makes: resolver(parent, args, context, info)
Invocation(parentType, fieldNode, parent) ==
  [parentType |-> parentType, fieldNode |-> fieldNode, parent |-> parent]

HasResolver(gw, type, fieldName) ==
  /\ << type, fieldName >> \in DOMAIN gw.resolvers
  /\ gw.resolvers[<< type, fieldName >>].kind # "none"

\* the invocations that completing `value` (of named type `type`, selected
\* with `selections`) leads to
RECURSIVE Invocations(_, _, _, _, _)
RECURSIVE InvocationsOfFields(_, _, _, _, _)
RECURSIVE InvocationsOfItems(_, _, _, _, _)
Invocations(value, type, selections, gw, fragments) ==
  IF value.j = "array"
    THEN InvocationsOfItems(value.items, type, selections, gw, fragments)
  ELSE IF value.j = "object"
    THEN InvocationsOfFields(CollectFields(selections, fragments, {}), value, type,
                             gw, fragments)
  ELSE << >>

InvocationsOfItems(items, type, selections, gw, fragments) ==
  IF items = << >> THEN << >>
  ELSE Invocations(Head(items), type, selections, gw, fragments)
         \o InvocationsOfItems(Tail(items), type, selections, gw, fragments)

InvocationsOfFields(fields, value, type, gw, fragments) ==
  IF fields = << >> THEN << >>
  ELSE
    LET x == Head(fields) IN
      (IF HasResolver(gw, type, x.name)
         THEN << Invocation(type, x, value) >>
       ELSE IF x.selections # << >> /\ x.name \in DOMAIN gw.schema[type].fields
         THEN Invocations(GetProp(value, x.name),
                          getFieldType(gw.schema, type, x.name), x.selections,
                          gw, fragments)
       ELSE << >>)
      \o InvocationsOfFields(Tail(fields), value, type, gw, fragments)

\* the GraphQLResolveInfo of an invocation
InfoOf(inv, req, gw) ==
  [fieldNode |-> inv.fieldNode,
   fieldName |-> inv.fieldNode.name,
   returnType |-> getFieldType(gw.schema, inv.parentType, inv.fieldNode.name),
   parentType |-> inv.parentType,
   operation |-> [operation |-> req.operation,
                  variableDefinitions |-> req.variableDefinitions],
   variableValues |-> req.variableValues,
   fragments |-> req.fragments,
   schema |-> gw.schema]

\* field.resolve(parent, args, context, info): the request it sends, or Threw
Resolve(inv, req, gw, how) ==
  LET r == gw.resolvers[<< inv.parentType, inv.fieldNode.name >>]
      info == InfoOf(inv, req, gw)
  IN IF ~HasService(gw.serviceMap, r.service) THEN Threw
     ELSE
       LET service == ServiceNamed(gw.serviceMap, r.service) IN
         IF how = "makeResolver"
           THEN makeResolver([service |-> service, kind |-> r.kind,
                              isQuery |-> r.kind = "query",
                              isReference |-> r.kind = "reference"],
                             inv.parent, info)
         ELSE IF r.kind = "query" THEN ResolveQueryOfGateway(service, info)
         ELSE IF r.kind = "reference"
           THEN ReferenceResolverOfGateway(service, inv.parent, info)
         ELSE FieldResolverOfGateway(service, r.typeForFragment, inv.parent, info)

\* st = [calls, sent] after the executor has made the invocations invs
RECURSIVE Dispatch(_, _, _, _, _)
Dispatch(invs, st, req, gw, how) ==
  IF invs = << >> THEN st
  ELSE
    LET inv == Head(invs)
        r == Resolve(inv, req, gw, how)
        call == [parentType |-> inv.parentType, fieldNode |-> inv.fieldNode,
                 parent |-> inv.parent,
                 resolver |-> gw.resolvers[<< inv.parentType, inv.fieldNode.name >>],
                 state |-> IF r.threw THEN "threw" ELSE "inflight",
                 response |-> JUndefined, value |-> JUndefined]
    IN Dispatch(Tail(invs),
         [calls |-> Append(st.calls, call),
          sent |-> IF r.threw THEN st.sent
                   ELSE Append(st.sent,
                          [call |-> Len(st.calls) + 1, service |-> r.value.service,
                           query |-> r.value.query,
                           variables |-> r.value.variables])],
         req, gw, how)

\* the invocations of the root fields; the root value is undefined
RECURSIVE RootInvocations(_, _, _)
RootInvocations(fields, type, gw) ==
  IF fields = << >> THEN << >>
  ELSE (IF HasResolver(gw, type, Head(fields).name)
        THEN << Invocation(type, Head(fields), JUndefined) >> ELSE << >>)
         \o RootInvocations(Tail(fields), type, gw)

(***************************************************************************)
(* The answer of a well-behaved service to a delegated request: an object  *)
(* with the selected fields, `n` items for every list.                     *)
(***************************************************************************)
\* idx: the position of the object in the list it belongs to
LeafValue(fieldName, type, idx) ==
  IF fieldName = "__typename" THEN JStr(type)
  ELSE IF fieldName = "id" THEN JStr(ToString(idx))
  ELSE JStr(fieldName)

RECURSIVE AnswerProps(_, _, _, _, _, _, _)
RECURSIVE AnswerValue(_, _, _, _, _, _)
\* props: the properties collected so far
AnswerProps(selections, type, schema, fragments, n, idx, props) ==
  IF selections = << >> THEN props
  ELSE
    LET x == Head(selections)
        next(p) == AnswerProps(Tail(selections), type, schema, fragments, n, idx, p)
    IN IF x.kind = "InlineFragment"
         THEN next(AnswerProps(x.selections, x.typeCondition, schema, fragments, n,
                               idx, props))
       ELSE IF x.kind = "FragmentSpread"
         THEN IF \E i \in DOMAIN fragments : fragments[i].name = x.name
              THEN LET f == fragments[CHOOSE i \in DOMAIN fragments :
                                        fragments[i].name = x.name]
                   IN next(AnswerProps(f.selections, f.typeCondition, schema,
                                       fragments, n, idx, props))
              ELSE next(props)
       ELSE IF x.selections = << >>
         THEN next(Put(props, x.name, LeafValue(x.name, type, idx)))
       ELSE IF type \in DOMAIN schema /\ x.name \in DOMAIN schema[type].fields
         THEN next(Put(props, x.name,
                       AnswerValue(x.selections, schema[type].fields[x.name].type,
                                   schema[type].fields[x.name].list, schema,
                                   fragments, n)))
       ELSE next(Put(props, x.name, JNull))

AnswerValue(selections, type, isList, schema, fragments, n) ==
  LET object(i) == JObj(AnswerProps(selections, type, schema, fragments, n, i,
                                    EmptyMap))
  IN IF isList THEN JArr([i \in 1..n |-> object(i)]) ELSE object(1)

\* the body {data: ...} answering the operation of a sent request
DataBody(req, schema, n) ==
  LET field == req.query.operation.selections[1]
      rootType == RootType(req.query.operation.operation)
  IN JsonBody(JObj([data |->
       IF field.name = "_entities"
       THEN JObj([_entities |->
              JArr(<< JObj(AnswerProps(field.selections, "_Entity", schema,
                                       req.query.fragments, n, 1, EmptyMap)) >>)])
       ELSE JObj(Put(EmptyMap, field.name,
              IF rootType \in DOMAIN schema /\ field.name \in DOMAIN schema[rootType].fields
              THEN AnswerValue(field.selections, schema[rootType].fields[field.name].type,
                               schema[rootType].fields[field.name].list, schema,
                               req.query.fragments, n)
              ELSE JNull))]))

ErrorsBody == JsonBody(JObj([errors |-> JArr(<< JStr("upstream error") >>)]))

DelegatedBodies(req, schema) ==
  {DataBody(req, schema, n) : n \in 0..MaxItems} \cup {ErrorsBody, NotJsonBody}

(***************************************************************************)
(* Request time.                                                           *)
(***************************************************************************)
\* the service map of a bootstrap in which every introspection succeeded
BootedServiceMap(list) ==
  [i \in DOMAIN list |->
     LET r == initOf(ServiceInfoBody(list[i].sdl).value).value IN
       [name |-> list[i].name, initialized |-> TRUE,
        schemaDefinition |-> r.schemaDefinition, typeMap |-> r.typeMap,
        types |-> DOMAIN r.typeMap]]

Boots(list) ==
  /\ \A i \in DOMAIN list : ~initOf(ServiceInfoBody(list[i].sdl).value).threw
  /\ ~GatewayOf(BootedServiceMap(list)).threw

\* the state after buildGateway has resolved
Init ==
  /\ \E list \in {l \in ServiceLists : Boots(l)} :
       /\ services = list
       /\ phase = [i \in DOMAIN list |-> "done"]
       /\ serviceMap = BootedServiceMap(list)
       /\ pmap = [resolvingCount |-> 0, nextIndex |-> Len(list) + 1,
                  isRejected |-> FALSE, isIterableDone |-> TRUE,
                  settled |-> "resolved"]
       /\ gateway = GatewayOf(BootedServiceMap(list)).value
  /\ gatewayPromise = "resolved"
  /\ wiring \in {"gateway", "makeResolver"}
  /\ ExecIdle
  /\ RestIdle

\* the executor starts executing a client request
Execute(req) ==
  /\ gatewayPromise = "resolved"
  /\ \A i \in DOMAIN calls : calls[i].state \notin {"inflight", "streaming"}
  /\ ValidRequest(req, gateway.schema)
  /\ LET st == Dispatch(RootInvocations(CollectFields(req.selections, req.fragments, {}),
                                        RootType(req.operation), gateway),
                        [calls |-> << >>, sent |-> << >>], req, gateway, wiring)
     IN /\ calls' = st.calls
        /\ sent' = st.sent
  /\ request' = req
  /\ UNCHANGED << restVars, bootVars, wiring >>

SentOf(c) == sent[CHOOSE k \in DOMAIN sent : sent[k].call = c]

\* the transport reports an error for the request of call c
DelegatedError(c) ==
  /\ c \in DOMAIN calls
  /\ calls[c].state = "inflight"
  /\ calls' = [calls EXCEPT ![c].state = requestOnError]
  /\ UNCHANGED << restVars, bootVars, wiring, request, sent >>

\* the response head of the request of call c arrives
DelegatedResponse(c, statusCode) ==
  /\ c \in DOMAIN calls
  /\ calls[c].state = "inflight"
  /\ calls' = [calls EXCEPT ![c].state = requestOnResponse(statusCode)]
  /\ UNCHANGED << restVars, bootVars, wiring, request, sent >>

\* the body of the response has ended: the promise of the request settles,
\* transformData runs, and the executor completes the value of the field
DelegatedEnd(c, body) ==
  /\ c \in DOMAIN calls
  /\ calls[c].state = "streaming"
  /\ IF requestOnEnd(body) # "resolved"
     THEN /\ calls' = [calls EXCEPT ![c].state = requestOnEnd(body)]
          /\ UNCHANGED sent
     ELSE LET v == transformData(calls[c].resolver.kind, calls[c].fieldNode.name,
                                 body.value)
          IN IF v.threw
             THEN /\ calls' = [calls EXCEPT ![c].state = "rejected",
                                            ![c].response = body.value]
                  /\ UNCHANGED sent
             ELSE LET type == getFieldType(gateway.schema, calls[c].parentType,
                                           calls[c].fieldNode.name)
                      st == Dispatch(
                              Invocations(v.value, type, calls[c].fieldNode.selections,
                                          gateway, request.fragments),
                              [calls |-> [calls EXCEPT ![c].state = "resolved",
                                                       ![c].response = body.value,
                                                       ![c].value = v.value],
                               sent |-> sent],
                              request, gateway, wiring)
                  IN /\ calls' = st.calls
                     /\ sent' = st.sent
  /\ UNCHANGED << restVars, bootVars, wiring, request >>

Next ==
  \/ \E req \in ClientRequests : Execute(req)
  \/ \E c \in DOMAIN calls : DelegatedError(c)
  \/ \E c \in DOMAIN calls, statusCode \in StatusCodes : DelegatedResponse(c, statusCode)
  \/ \E c \in {i \in DOMAIN calls : calls[i].state = "streaming"} :
       \E body \in DelegatedBodies(SentOf(c), gateway.schema) : DelegatedEnd(c, body)

Spec == Init /\ [][Next]_vars

(***************************************************************************)
(* Fragment forwarding on its own: collectFragmentsToInclude applied to    *)
(* the fragments of a request, whatever they are.  The fragments are on    *)
(* Review and select leaf fields and spreads, so that nothing but the      *)
(* depth of the recursion can make the call throw.                         *)
(***************************************************************************)
MaxSpreads == 2

FragmentNames == {"A", "B"}

\* fragment <n> on Review { id ...<spreads> }
ReviewFragment(n, spreads) ==
  FragmentDefinition(n, "Review",
    << Leaf("id") >> \o [i \in DOMAIN spreads |-> FragmentSpread(spreads[i])])

FragmentTables ==
  {[n \in FragmentNames |-> ReviewFragment(n, spreadsOf[n])] :
     spreadsOf \in [FragmentNames -> BoundedSeq(FragmentNames, MaxSpreads)]}

\* { reviews { ...<spreads> } } with the fragments of the table
SpreadRequests ==
  {ClientRequest("query", << >>,
     << Field("reviews", << >>,
          [i \in DOMAIN spreads |-> FragmentSpread(spreads[i])]) >>,
     table) :
     spreads \in BoundedSeq(FragmentNames, MaxSpreads) \ {<< >>},
     table \in FragmentTables}

ForwardInit ==
  /\ services = ScenarioServices
  /\ phase = [i \in DOMAIN ScenarioServices |-> "done"]
  /\ serviceMap = BootedServiceMap(ScenarioServices)
  /\ pmap = [resolvingCount |-> 0, nextIndex |-> Len(ScenarioServices) + 1,
             isRejected |-> FALSE, isIterableDone |-> TRUE,
             settled |-> "resolved"]
  /\ gateway = GatewayOf(BootedServiceMap(ScenarioServices)).value
  /\ gatewayPromise = "resolved"
  /\ wiring = "makeResolver"
  /\ request \in SpreadRequests
  /\ calls = << >>
  /\ sent = << >>
  /\ RouteIdle
  /\ forwarded = NotForwarded

\* makeResolver, from the pruned selections to fragmentsToDefine
Forward ==
  /\ forwarded = NotForwarded
  /\ LET service == ServiceNamed(gateway.serviceMap, "reviews")
         selections == removeNonServiceTypeFields(request.selections[1].selections,
                         service, "Review", gateway.schema)
         usedFragments == getFragmentNamesInSelection(selections.value)
         fragmentsToDefine == collectFragmentsToInclude(usedFragments,
                                request.fragments, service, gateway.schema, 1)
     IN forwarded' =
          IF fragmentsToDefine.threw
          THEN [state |-> "threw", usedFragments |-> usedFragments,
                fragments |-> << >>]
          ELSE [state |-> "returned", usedFragments |-> usedFragments,
                fragments |-> fragmentsToDefine.value]
  /\ UNCHANGED << bootVars, execVars, routeVars >>

ForwardNext == Forward

SpecForward == ForwardInit /\ [][ForwardNext]_vars

(***************************************************************************)
(* The routes (lib/routes.js): the error handler.                          *)
(* A property that may be missing is << >> when it is, << v >> otherwise.  *)
(***************************************************************************)
MaxErrors == 2

Absent == << >>
Some(v) == << v >>

\* Symbol('FEDERATED_ERROR').toString()
FEDERATED_ERROR == "Symbol(FEDERATED_ERROR)"

Location(line, column) == [line |-> line, column |-> column]
Extensions(code, additional, errors) ==
  [code |-> code, additional |-> additional, errors |-> errors]

\* an element of err.errors, or an error object a service has answered with
ErrorObject(kind, message, locations, path, extensions) ==
  [kind |-> kind, message |-> message, locations |-> locations, path |-> path,
   extensions |-> extensions]

\* the errors of test/errors.js
ErrorOne ==
  ErrorObject("GraphQLError", "Error One", Some(<< Location(1, 2) >>),
    Some(<< "errorOne" >>),
    Some(Extensions("ERROR_ONE", "information one", << >>)))
ErrorTwo ==
  ErrorObject("GraphQLError", "Error Two", Some(<< Location(1, 11) >>),
    Some(<< "errorTwo" >>),
    Some(Extensions("ERROR_TWO", "information two", << >>)))
\* an error of the parser: locations, neither path nor extensions
SyntaxError ==
  ErrorObject("GraphQLError", "Syntax Error", Some(<< Location(1, 1) >>), Absent,
    Absent)
\* err.errors = [validationError]
ValidationError ==
  ErrorObject("Error", "body should be object", Absent, Absent, Absent)

\* the errors a service answered a delegated request with
UpstreamErrors ==
  {ErrorObject("Object", "Upstream One", Some(<< Location(2, 3) >>),
     Some(<< "reviews" >>), Some(Extensions("UPSTREAM", "reviews", << >>))),
   ErrorObject("Object", "Upstream Two", Absent, Some(<< "product" >>), Absent)}

\* the error of a failed federated request: it carries the service's errors
FederatedError(errors) ==
  ErrorObject("GraphQLError", FEDERATED_ERROR, Absent, Absent,
    Some(Extensions("", "", errors)))

ErrorObjects ==
  {ErrorOne, ErrorTwo, SyntaxError, ValidationError}
    \cup {FederatedError(errors) : errors \in BoundedSeq(UpstreamErrors, MaxErrors)}

\* what the route handler rejects with
HandlerError(data, statusCode, message, errors) ==
  [data |-> data, statusCode |-> statusCode, message |-> message,
   errors |-> errors]

PartialData == JObj([errorOne |-> JNull, errorTwo |-> JNull])

HandlerErrors ==
  {HandlerError(data, statusCode, "Bad Request", errors) :
     data \in {JUndefined, PartialData},
     statusCode \in {Absent, Some(400)},
     errors \in {Absent} \cup {Some(e) : e \in BoundedSeq(ErrorObjects, MaxErrors)}}

\* graphql's formatError
formatError(error) ==
  [message |-> error.message, locations |-> error.locations,
   path |-> error.path, extensions |-> error.extensions]

\* lib/errors: a GraphQLError with the properties of the service's error
toGraphQLError(err) == [err EXCEPT !.kind = "GraphQLError"]

\* the callback of err.errors.map: an entry, or a list of entries
MapError(error) ==
  IF error.message = FEDERATED_ERROR
  THEN [list |-> TRUE,
        entries |-> [i \in DOMAIN error.extensions[1].errors |->
                       formatError(toGraphQLError(error.extensions[1].errors[i]))]]
  ELSE [list |-> FALSE,
        entries |-> << IF error.kind = "GraphQLError" THEN formatError(error)
                       ELSE [message |-> error.message, locations |-> Absent,
                             path |-> Absent, extensions |-> Absent] >>]

\* .reduce((acc, val) => acc.concat(val), [])
RECURSIVE ReduceConcat(_, _)
ReduceConcat(acc, vals) ==
  IF vals = << >> THEN acc
  ELSE ReduceConcat(acc \o Head(vals).entries, Tail(vals))

Truthy(v) == v.j \notin {"undefined", "null"}

\* a handler that takes the status from the error alone
defaultErrorHandlerWithoutData(err) ==
  [sent |-> TRUE,
   code |-> IF err.statusCode # Absent THEN err.statusCode[1] ELSE 500,
   payload |->
     [errors |-> IF err.errors # Absent
                 THEN ReduceConcat(<< >>,
                        [i \in DOMAIN err.errors[1] |-> MapError(err.errors[1][i])])
                 ELSE << [message |-> err.message, locations |-> Absent,
                          path |-> Absent, extensions |-> Absent] >>,
      data |-> IF Truthy(err.data) THEN err.data ELSE JNull]]

defaultErrorHandler(err) ==
  [sent |-> TRUE,
   code |-> IF Truthy(err.data) THEN 200
            ELSE IF err.statusCode # Absent THEN err.statusCode[1] ELSE 500,
   payload |->
     [errors |-> IF err.errors # Absent
                 THEN ReduceConcat(<< >>,
                        [i \in DOMAIN err.errors[1] |-> MapError(err.errors[1][i])])
                 ELSE << [message |-> err.message, locations |-> Absent,
                          path |-> Absent, extensions |-> Absent] >>,
      data |-> IF Truthy(err.data) THEN err.data ELSE JNull]]

\* the route handler has rejected with err
ErrorsInit ==
  /\ wiring = "gateway"
  /\ ExecIdle
  /\ services = << >>
  /\ phase = << >>
  /\ serviceMap = << >>
  /\ pmap = [resolvingCount |-> 0, nextIndex |-> 1, isRejected |-> FALSE,
             isIterableDone |-> FALSE, settled |-> "pending"]
  /\ gatewayPromise = "notCalled"
  /\ gateway = NoGateway
  /\ opts = NoOpts
  /\ httpBody = << >>
  /\ execs = << >>
  /\ saved = << >>
  /\ \E err \in HandlerErrors : reply = [state |-> "rejected", err |-> err]
  /\ response = NoResponse
  /\ forwarded = NotForwarded

\* app.setErrorHandler(defaultErrorHandler): the reply to a rejected handler
ErrorHandler ==
  /\ reply.state = "rejected"
  /\ ~response.sent
  /\ response' = defaultErrorHandler(reply.err)
  /\ UNCHANGED << bootVars, execVars, opts, httpBody, execs, saved, reply,
                  forwarded >>

ErrorsNext == ErrorHandler

SpecErrors == ErrorsInit /\ [][ErrorsNext]_vars

(***************************************************************************)
(* The routes (lib/routes.js): the POST handler, executeRegularQuery,      *)
(* executePersistedQuery and executeQuery.  The persisted query provider,  *)
(* reply.graphql and the body the client sends are the environment.        *)
(***************************************************************************)
MaxBatch == 2

\* an element of the body: null, or an object with its query, with what
\* isPersistedQuery(body) returns and with what getHash(body) returns
\* ("" for no hash)
NullBody == [kind |-> "null"]
RequestBody(query, persisted, hash) ==
  [kind |-> "object", query |-> query, persisted |-> persisted, hash |-> hash]

RequestBodies ==
  {RequestBody(query, FALSE, "") : query \in {"", "{ a }"}}
    \cup {RequestBody(query, TRUE, hash) :
            query \in {"", "{ a }"}, hash \in {"", "known", "unknown"}}

\* request.body: one object, or an array when it passes postSchema
HttpBodies ==
  {[batch |-> FALSE, items |-> << b >>] : b \in RequestBodies}
    \cup {[batch |-> TRUE, items |-> items] :
            items \in BoundedSeq(RequestBodies \cup {NullBody}, MaxBatch)}

\* opts.persistedQueryProvider: getHash and getHashForQuery may be left out
Provider(getHash, getHashForQuery) ==
  [configured |-> TRUE, getHash |-> getHash, getHashForQuery |-> getHashForQuery]

RouteOpts ==
  {[allowBatchedQueries |-> a, persistedQueryProvider |-> p] :
     a \in BOOLEAN,
     p \in {NoProvider, Provider(TRUE, TRUE), Provider(FALSE, TRUE),
            Provider(TRUE, FALSE)}}

\* getQueryFromHash(hash): the stored query, nothing for an unknown hash
getQueryFromHash(hash) == IF hash = "known" THEN "{ stored }" ELSE ""

\* getHashForQuery(query)
getHashForQuery(query) == << "hash of", query >>

BadRequest(message) ==
  [name |-> "BadRequestError", statusCode |-> 400, message |-> message]
TypeError(message) == [name |-> "TypeError", message |-> message]
ExecutionError == [name |-> "Error", message |-> "execution failed"]
CannotDestructure ==
  TypeError("Cannot destructure property 'query' of 'body' as it is null.")

\* what reply.graphql resolves with
GraphqlResult(query) == [data |-> << "result of", query >>]

\* the execution of one element of the body.
\*   state: "threw" (a synchronous throw), "lookup" (awaiting
\*     getQueryFromHash), "executing" (awaiting reply.graphql), "saving"
\*     (awaiting saveQuery), "resolved", "rejected"
\*   executed: reply.graphql has been called
Execution(state, body, query, executed, result, error) ==
  [state |-> state, body |-> body, query |-> query, executed |-> executed,
   result |-> result, error |-> error, saveFailed |-> FALSE]

\* executeQuery up to the call of reply.graphql; without a query it returns a
\* BadRequest, which `if (!persisted && query)` never saves
executeQuery(body, query) ==
  IF query = ""
  THEN Execution("resolved", body, query, FALSE, Some(BadRequest("Unknown query")),
                 Absent)
  ELSE Execution("executing", body, query, TRUE, Absent, Absent)

\* executeRegularQuery: the destructuring of a null body throws in the caller
executeRegularQuery(body) ==
  IF body.kind = "null"
  THEN Execution("threw", body, "", FALSE, Absent, Some(CannotDestructure))
  ELSE executeQuery(body, body.query)

\* an executePersistedQuery that saves whatever it has executed
SaveHashAlways(provider, persisted, query) == Some(getHashForQuery(query))

\* executePersistedQuery, `if (!persisted && query)`: the hash saveQuery is
\* called with, if it is called
SaveHash(provider, persisted, query) ==
  IF ~persisted /\ query # "" /\ provider.getHashForQuery
  THEN Some(getHashForQuery(query))
  ELSE Absent

\* executePersistedQuery up to its first await that the environment answers;
\* an async function rejects where it throws
executePersistedQuery(body, provider) ==
  IF body.kind = "null"
  THEN Execution("rejected", body, "", FALSE, Absent, Some(CannotDestructure))
  ELSE IF body.persisted
  THEN IF provider.getHash /\ body.hash # ""
       THEN Execution("lookup", body, body.query, FALSE, Absent, Absent)
       ELSE Execution("rejected", body, body.query, FALSE, Absent,
                      Some(BadRequest("notSupportedError")))
  ELSE executeQuery(body, body.query)

\* const execute = persistedQueryProvider ? executePersistedQuery : executeRegularQuery
execute(body, o) ==
  IF o.persistedQueryProvider.configured
  THEN executePersistedQuery(body, o.persistedQueryProvider)
  ELSE executeRegularQuery(body)

Settled(e) == e.state \in {"resolved", "rejected"}

\* .catch(e => ({ errors: [{ message: e.message }] }))
Caught(e) ==
  IF e.state = "rejected"
  THEN [errors |-> << [message |-> e.error[1].message] >>]
  ELSE e.result[1]

\* the promise the POST handler returns, given the executions started
HandlerReply(body, es) ==
  IF body.batch
  THEN IF \A i \in DOMAIN es : Settled(es[i])
       THEN [state |-> "resolved", value |-> [i \in DOMAIN es |-> Caught(es[i])]]
       ELSE [state |-> "pending"]
  ELSE IF es[1].state = "resolved"
       THEN [state |-> "resolved", value |-> es[1].result[1]]
       ELSE IF es[1].state = "rejected"
       THEN [state |-> "rejected", err |-> es[1].error[1]]
       ELSE [state |-> "pending"]

\* request.body.map(r => execute(r, request, reply)...): the executions that
\* are started, up to and including the first that throws
RECURSIVE MapExecute(_, _, _)
MapExecute(items, o, es) ==
  IF items = << >> THEN es
  ELSE LET e == execute(Head(items), o) IN
    IF e.state = "threw" THEN Append(es, e)
    ELSE MapExecute(Tail(items), o, Append(es, e))

RoutesInit ==
  /\ wiring = "gateway"
  /\ ExecIdle
  /\ services = << >>
  /\ phase = << >>
  /\ serviceMap = << >>
  /\ pmap = [resolvingCount |-> 0, nextIndex |-> 1, isRejected |-> FALSE,
             isIterableDone |-> FALSE, settled |-> "pending"]
  /\ gatewayPromise = "notCalled"
  /\ gateway = NoGateway
  /\ opts \in RouteOpts
  /\ httpBody \in HttpBodies
  /\ execs = << >>
  /\ saved = << >>
  /\ reply = NoReply
  /\ response = NoResponse
  /\ forwarded = NotForwarded

\* app.post(graphqlPath, ...): the handler up to its first await
Post ==
  /\ reply = NoReply
  /\ IF httpBody.batch /\ ~opts.allowBatchedQueries
     THEN \* postSchema: the body must be an object
          /\ execs' = << >>
          /\ reply' = [state |-> "rejected", err |-> BadRequest("Bad Request")]
     ELSE LET es == MapExecute(httpBody.items, opts, << >>) IN
          /\ execs' = es
          /\ reply' = IF \E i \in DOMAIN es : es[i].state = "threw"
                      THEN [state |-> "rejected",
                            err |-> es[Len(es)].error[1]]
                      ELSE HandlerReply(httpBody, es)
  /\ UNCHANGED << bootVars, execVars, opts, httpBody, saved, response, forwarded >>

\* the reply after a step of an execution: a handler that has thrown stays
\* rejected
ReplyAfter(es) ==
  IF reply.state = "pending" THEN HandlerReply(httpBody, es) ELSE reply

\* getQueryFromHash(hash) has resolved
LookupDone(i) ==
  /\ i \in DOMAIN execs
  /\ execs[i].state = "lookup"
  /\ LET query == getQueryFromHash(execs[i].body.hash)
         e == IF query = ""
              THEN [execs[i] EXCEPT !.state = "rejected", !.query = query,
                                    !.error = Some(BadRequest("notFoundError"))]
              ELSE [execs[i] EXCEPT !.state = "executing", !.query = query,
                                    !.executed = TRUE]
     IN /\ execs' = [execs EXCEPT ![i] = e]
        /\ reply' = ReplyAfter(execs')
  /\ UNCHANGED << bootVars, execVars, opts, httpBody, saved, response, forwarded >>

\* the continuation of executePersistedQuery after `await executeQuery(...)`
AfterExecuteQuery(i, e) ==
  LET hash == IF opts.persistedQueryProvider.configured
              THEN SaveHash(opts.persistedQueryProvider, e.body.persisted, e.query)
              ELSE Absent
  IN IF hash = Absent
     THEN /\ execs' = [execs EXCEPT ![i] = [e EXCEPT !.state = "resolved"]]
          /\ UNCHANGED saved
     ELSE /\ execs' = [execs EXCEPT ![i] = [e EXCEPT !.state = "saving"]]
          /\ saved' = Append(saved, [index |-> i, hash |-> hash[1],
                                     query |-> e.query,
                                     executed |-> e.result # Absent])

\* reply.graphql has settled
GraphqlDone(i, throws) ==
  /\ i \in DOMAIN execs
  /\ execs[i].state = "executing"
  /\ IF throws
     THEN /\ execs' = [execs EXCEPT ![i].state = "rejected",
                                    ![i].error = Some(ExecutionError)]
          /\ UNCHANGED saved
     ELSE AfterExecuteQuery(i, [execs[i] EXCEPT
                                  !.result = Some(GraphqlResult(execs[i].query))])
  /\ reply' = ReplyAfter(execs')
  /\ UNCHANGED << bootVars, execVars, opts, httpBody, response, forwarded >>

\* saveQuery(hash, query) has settled; a rejection is logged
SaveDone(i, failed) ==
  /\ i \in DOMAIN execs
  /\ execs[i].state = "saving"
  /\ execs' = [execs EXCEPT ![i].state = "resolved", ![i].saveFailed = failed]
  /\ reply' = ReplyAfter(execs')
  /\ UNCHANGED << bootVars, execVars, opts, httpBody, saved, response, forwarded >>

RoutesNext ==
  \/ Post
  \/ \E i \in DOMAIN execs : LookupDone(i)
  \/ \E i \in DOMAIN execs, throws \in BOOLEAN : GraphqlDone(i, throws)
  \/ \E i \in DOMAIN execs, failed \in BOOLEAN : SaveDone(i, failed)

SpecRoutes == RoutesInit /\ [][RoutesNext]_vars

(***************************************************************************)
(* Properties.                                                             *)
(***************************************************************************)
CallOf(k) == calls[sent[k].call]
KindOf(k) == CallOf(k).resolver.kind
OperationOf(k) == sent[k].query.operation
ReturnTypeOf(k) ==
  getFieldType(gateway.schema, CallOf(k).parentType, CallOf(k).fieldNode.name)

\* the pruned selections of the delegated field inside the operation sent
PrunedSelectionsOf(k) ==
  IF KindOf(k) = "query" THEN OperationOf(k).selections[1].selections
  ELSE IF KindOf(k) = "reference"
    THEN OperationOf(k).selections[1].selections[2].selections
  ELSE OperationOf(k).selections[1].selections[2].selections[1].selections

RECURSIVE PrunedAtEveryLevel(_, _, _, _)
PrunedAtEveryLevel(selections, typeMap, type, schema) ==
  /\ selections # << >>
  /\ selections[Len(selections)] = TypenameField
  /\ \A i \in 1..(Len(selections) - 1) :
       selections[i].kind = "Field" =>
         /\ type \in DOMAIN typeMap
         /\ selections[i].name \in typeMap[type]
         /\ selections[i].selections # << >> =>
              PrunedAtEveryLevel(selections[i].selections, typeMap,
                getFieldType(schema, type, selections[i].name), schema)

\* C1: in every request sent, at every nesting level of the pruned selection
\* set, every retained field is a field of the target service's typeMap entry
\* for the type of that level (the return type of the enclosing field), and
\* the last selection of the level is __typename.
C1_PrunedAtEveryLevel ==
  \A k \in DOMAIN sent :
    PrunedAtEveryLevel(PrunedSelectionsOf(k),
      ServiceNamed(gateway.serviceMap, sent[k].service).typeMap,
      ReturnTypeOf(k), gateway.schema)

\* the variables an argument list refers to
VariablesOfArguments(arguments) ==
  {arguments[i].value.name :
     i \in {j \in DOMAIN arguments :
              arguments[j].value.kind \in {"Variable", "ObjectValue"}}}

RECURSIVE VariablesOfSelections(_)
VariablesOfSelections(selections) ==
  UNION {VariablesOfArguments(selections[i].arguments)
           \cup VariablesOfSelections(selections[i].selections) :
         i \in DOMAIN selections}

DeclaredVariables(k) ==
  {OperationOf(k).variableDefinitions[i].name :
     i \in DOMAIN OperationOf(k).variableDefinitions}
    \ (IF KindOf(k) = "query" THEN {} ELSE {"representations"})

ReferencedVariables(k) ==
  VariablesOfSelections(PrunedSelectionsOf(k))
    \cup VariablesOfArguments(CallOf(k).fieldNode.arguments)
    \cup UNION {VariablesOfSelections(sent[k].query.fragments[i].selections) :
                i \in DOMAIN sent[k].query.fragments}

\* C2: the variables a synthesized operation declares ($representations left
\* aside) are exactly the variables its pruned selections, the originating
\* field's arguments and the forwarded fragments refer to.
C2_VariablesDeclaredAreReferenced ==
  \A k \in DOMAIN sent : DeclaredVariables(k) = ReferencedVariables(k)

\* C3: the operation sent for a Query field is named Query_<fieldName> and its
\* one top-level field is <fieldName> with the client's arguments unchanged.
C3_RootOperationKeepsArguments ==
  \A k \in DOMAIN sent :
    KindOf(k) = "query" =>
      /\ OperationOf(k).name = QueryName(CallOf(k).fieldNode.name)
      /\ Len(OperationOf(k).selections) = 1
      /\ OperationOf(k).selections[1].name = CallOf(k).fieldNode.name
      /\ OperationOf(k).selections[1].arguments = CallOf(k).fieldNode.arguments
      /\ sent[k].service = OwnerOf(gateway.typeToServiceMap, ReturnTypeOf(k))

\* what variables.representations holds on the wire: parent[fieldName] for an
\* entity reference, the parent for a field resolver
ExpectedRepresentations(k) ==
  IF KindOf(k) = "reference"
  THEN JArr(<< JsonElement(GetProp(CallOf(k).parent, CallOf(k).fieldNode.name)) >>)
  ELSE JArr(<< JsonElement(CallOf(k).parent) >>)

\* the client's own operation has a variable called representations
ClientNamesRepresentations ==
  \E i \in DOMAIN request.variableDefinitions :
    request.variableDefinitions[i].name = "representations"

ExpectedResolver(gw, type, fieldName) ==
  LET returnType == getFieldType(gw.schema, type, fieldName)
      owner == OwnerOf(gw.typeToServiceMap, type)
      returnOwner == OwnerOf(gw.typeToServiceMap, returnType)
  IN IF returnType \in ScalarTypes \/ gw.schema[returnType].kind = "enum"
       THEN NoResolver
     ELSE IF returnOwner = owner THEN NoResolver
     ELSE IF owner = NoService
       THEN [kind |-> "query", service |-> returnOwner, typeForFragment |-> NoName]
     ELSE IF fieldName \in ServiceNamed(gw.serviceMap, owner).typeMap[type]
       THEN [kind |-> "reference", service |-> returnOwner, typeForFragment |-> NoName]
     ELSE [kind |-> "field", service |-> returnOwner, typeForFragment |-> type]

\* C5: every field of every non-introspection object type carries the
\* resolver the classification gives it, targeting the owner of its return
\* type; fields of scalar or enum type carry none.
C5_Classification ==
  gatewayPromise = "resolved" =>
    \A t \in DOMAIN gateway.schema :
      (gateway.schema[t].kind = "object" /\ ~isDefaultType(t)) =>
        \A f \in DOMAIN gateway.schema[t].fields :
          /\ << t, f >> \in DOMAIN gateway.resolvers
          /\ gateway.resolvers[<< t, f >>] = ExpectedResolver(gateway, t, f)

\* a gateway has been built whose fields carry all three kinds of resolver
C5_Witness ==
  /\ gatewayPromise = "resolved"
  /\ \A kind \in {"none", "query", "reference", "field"} :
       \E p \in DOMAIN gateway.resolvers : gateway.resolvers[p].kind = kind

\* nothing of the bootstrap can happen any more
BootQuiescent ==
  /\ gatewayPromise # "notCalled"
  /\ \A i \in DOMAIN phase : phase[i] \notin {"inflight", "streaming"}

\* C6: buildGateway always settles (once every introspection request has run
\* its course the promise is resolved or rejected), it resolves only if every
\* introspection succeeded, and a gateway it returns has the schemaDefinition,
\* typeMap and types of every service.
C6_AllOrNothingAndSettles ==
  /\ BootQuiescent => gatewayPromise \in {"resolved", "rejected"}
  /\ gatewayPromise = "resolved" =>
       /\ \A i \in DOMAIN services : phase[i] = "done"
       /\ Len(gateway.serviceMap) = Len(services)
       /\ \A i \in DOMAIN services : gateway.serviceMap[i].initialized

\* the delegated request of call c has failed
DelegationFailed(c) == calls[c].state \in {"rejected", "ignored", "parseThrew"}

\* C7: when a delegated request fails (transport error, status other than
\* 200, body that is not JSON) the promise of the resolver is rejected.
C7_FailureRejects ==
  \A c \in DOMAIN calls : DelegationFailed(c) => calls[c].state = "rejected"

RootTypes == {"Query", "Mutation", "Subscription"}

\* C8: in the ownership index every key of some service's typeMap is mapped to
\* a service that declares it, except Query, Mutation and Subscription, which
\* are mapped to none.
C8_OwnershipIndex ==
  gatewayPromise = "resolved" =>
    \A i \in DOMAIN gateway.serviceMap :
      \A t \in DOMAIN gateway.serviceMap[i].typeMap :
        /\ t \in DOMAIN gateway.typeToServiceMap
        /\ IF t \in RootTypes
           THEN gateway.typeToServiceMap[t] = NoService
           ELSE \E j \in DOMAIN gateway.serviceMap :
                  /\ gateway.serviceMap[j].name = gateway.typeToServiceMap[t]
                  /\ t \in DOMAIN gateway.serviceMap[j].typeMap

\* the documents of the scenario of section 8
ScenarioReviewsQuery ==
  [operation |->
     OperationDefinition("query", QueryName("reviews"), << >>,
       << Field("reviews", << >>, << Leaf("id"), TypenameField >>) >>),
   fragments |-> << >>]
ScenarioEntitiesQuery ==
  [operation |->
     OperationDefinition("query", EntitiesQueryName, << RepresentationsDefinition >>,
       << Field("_entities",
            << Argument("representations", Variable("representations")) >>,
            << TypenameField,
               InlineFragment("Review",
                 << Field("product", << >>, << Leaf("name"), TypenameField >>) >>) >>) >>),
   fragments |-> << >>]

IsScenario == services = ScenarioServices /\ request = ScenarioRequest

\* C9: in the scenario, the first request goes to the reviews service and
\* selects reviews { id __typename }; every other request goes to the products
\* service, is the _entities operation on Review selecting
\* product { name __typename }, and carries as representations the one parent
\* review {__typename: "Review", id}; the field resolves with
\* data._entities[0].product.
C9_Scenario ==
  IsScenario =>
    /\ calls # << >> => (sent # << >> /\ sent[1].call = 1)
    /\ \A k \in DOMAIN sent :
         IF k = 1
         THEN /\ sent[k].service = "reviews"
              /\ sent[k].query = ScenarioReviewsQuery
         ELSE /\ sent[k].service = "products"
              /\ sent[k].query = ScenarioEntitiesQuery
              /\ CallOf(k).resolver.kind = "field"
              /\ calls[1].state = "resolved"
              /\ \E i \in DOMAIN calls[1].value.items :
                   /\ CallOf(k).parent = calls[1].value.items[i]
                   /\ sent[k].variables =
                        [representations |-> JArr(<< calls[1].value.items[i] >>)]
              /\ DOMAIN CallOf(k).parent.props = {"__typename", "id"}
              /\ CallOf(k).parent.props["__typename"] = JStr("Review")
    /\ \A c \in DOMAIN calls :
         (c > 1 /\ calls[c].state = "resolved") =>
           calls[c].value =
             calls[c].response.props["data"].props["_entities"].items[1].props["product"]

\* the scenario has run to the end: a product of a review has been resolved
C9_Witness ==
  /\ IsScenario
  /\ \E c \in DOMAIN calls :
       /\ c > 1
       /\ calls[c].state = "resolved"
       /\ calls[c].value.j = "object"

\* C10: every invocation of a delegating resolver sends exactly one request,
\* to the service the resolver is bound to.
C10_OneRequestPerInvocation ==
  \A c \in DOMAIN calls :
    /\ Cardinality({k \in DOMAIN sent : sent[k].call = c}) = 1
    /\ \A k \in DOMAIN sent :
         sent[k].call = c => sent[k].service = calls[c].resolver.service

\* the root call of the scenario has resolved with a list of reviews
ScenarioReviewsResolved ==
  /\ IsScenario
  /\ calls # << >>
  /\ calls[1].state = "resolved"
  /\ calls[1].value.j = "array"

Introspecting ==
  {i \in DOMAIN phase : phase[i] \in {"inflight", "streaming", "ignored", "parseThrew"}}

NoIntrospectionFailed ==
  \A i \in DOMAIN phase : phase[i] \in {"idle", "inflight", "streaming", "done"}

\* a step starts the introspection of service i
Starts(i) == phase[i] = "idle" /\ phase'[i] = "inflight"

C12_BoundedInvariant ==
  /\ Cardinality(Introspecting) <= Concurrency
  /\ Cardinality(Introspecting) = pmap.resolvingCount
       - Cardinality({i \in DOMAIN phase : phase[i] = "rejected"})
  /\ (NoIntrospectionFailed /\ \E i \in DOMAIN phase : phase[i] = "idle") =>
       Cardinality(Introspecting) = Concurrency
  /\ gatewayPromise = "resolved" => \A i \in DOMAIN phase : phase[i] = "done"

C12_StartsOnCompletion ==
  \A i \in DOMAIN phase :
    /\ Starts(i) =>
         /\ \E j \in DOMAIN phase : phase[j] = "streaming" /\ phase'[j] = "done"
         /\ \A j \in DOMAIN phase : Starts(j) => j = i
    /\ phase[i] # "idle" =>
         /\ phase'[i] # "idle"
         /\ phase'[i] = "inflight" => phase[i] = "inflight"

\* C12: during bootstrap at most 8 introspections are in flight at any
\* moment; after the first 8, an introspection is started only in the step in
\* which one in flight completes, one at a time; no introspection is started
\* twice, and while none has failed the 8 slots stay filled until every
\* service has been started; a gateway is resolved only when each is done.
C12_BoundedFanOut ==
  [](C12_BoundedInvariant) /\ [][C12_StartsOnCompletion]_vars

\* the last service is being introspected while as many others as the
\* concurrency allows still are
C12_Witness ==
  /\ Len(services) > Concurrency
  /\ phase[Len(services)] = "inflight"
  /\ Cardinality(Introspecting) = Concurrency

\* the errors underlying err.errors, federated errors replaced by the errors
\* they contain
RECURSIVE UnderlyingErrors(_)
UnderlyingErrors(errors) ==
  IF errors = << >> THEN << >>
  ELSE (IF Head(errors).message = FEDERATED_ERROR
        THEN Head(errors).extensions[1].errors ELSE << Head(errors) >>)
         \o UnderlyingErrors(Tail(errors))

\* C13: an error carrying data is answered with status 200 and {data,
\* errors}, errors holding one entry per underlying error in the original
\* order (federated errors replaced in place by the errors they contain),
\* each with the message, locations, path and extensions of its error; an
\* error without data is answered with its statusCode, or 500 when it has
\* none, and data null.
C13_ErrorReply ==
  response.sent =>
    LET err == reply.err IN
      /\ Truthy(err.data) =>
           /\ response.code = 200
           /\ response.payload.data = err.data
           /\ err.errors # Absent =>
                LET underlying == UnderlyingErrors(err.errors[1]) IN
                  /\ Len(response.payload.errors) = Len(underlying)
                  /\ \A i \in DOMAIN underlying :
                       /\ response.payload.errors[i].message = underlying[i].message
                       /\ response.payload.errors[i].locations = underlying[i].locations
                       /\ response.payload.errors[i].path = underlying[i].path
                       /\ response.payload.errors[i].extensions = underlying[i].extensions
      /\ ~Truthy(err.data) =>
           /\ response.code = IF err.statusCode = Absent THEN 500 ELSE err.statusCode[1]
           /\ response.payload.data = JNull

\* the reply to the two field errors of test/errors.js and to a federated
\* error between them has been sent
C13_Witness ==
  /\ response.sent
  /\ Truthy(reply.err.data)
  /\ reply.err.statusCode # Absent
  /\ reply.err.errors # Absent
  /\ Len(reply.err.errors[1]) = 2
  /\ reply.err.errors[1][1] = ErrorOne
  /\ reply.err.errors[1][2].message = FEDERATED_ERROR
  /\ Len(response.payload.errors) = 3

\* C14: collectFragmentsToInclude returns for every fragment table, cyclic
\* ones included: the call never ends in an overflow of the stack.
C14_ForwardingReturns ==
  forwarded.state # "none" => forwarded.state = "returned"

\* the fields that an SDL declares on type t in the blocks createTypeMap reads
DeclaredFields(sdl, t) ==
  UNION {FieldNames(d.fields) :
           d \in {e \in Range(sdl.definitions) : InTypeMap(e) /\ e.name = t}}

\* the type map of the claim: a key per type definition and for an extended
\* Query, each with all the fields declared on it
DeclaredTypeMap(sdl) ==
  [t \in {d.name : d \in {e \in Range(sdl.definitions) : InTypeMap(e)}} |->
     DeclaredFields(sdl, t)]

C15_TypeMapOfSdl ==
  \A i \in DOMAIN serviceMap :
    serviceMap[i].initialized =>
      serviceMap[i].typeMap = DeclaredTypeMap(serviceMap[i].schemaDefinition)

C15_ProcessedWithoutFailure ==
  \A i \in DOMAIN services :
    IntrospectionEnd(i, ServiceInfoBody(services[i].sdl)) =>
      serviceMap'[i].initialized

\* C15: the typeMap of a service has a key for each type definition of its SDL
\* and for Query when the SDL extends it, no key from another extension, and
\* maps each key to all the fields the SDL declares on it (the union of the
\* blocks of Query); an SDL with definitions that have no fields (enum,
\* scalar, union) is processed without failure.
C15_TypeMap ==
  [](C15_TypeMapOfSdl) /\ [][C15_ProcessedWithoutFailure]_vars

\* call c has received a 200 response whose body is JSON
Answered(c) == calls[c].state \in {"resolved", "rejected"} /\ calls[c].response # JUndefined

\* response.json.data[fieldName], data._entities[0], data._entities[0][fieldName]
ExpectedValue(c) ==
  LET json == calls[c].response
      fieldName == calls[c].fieldNode.name
  IN IF calls[c].resolver.kind = "query"
       THEN ReadPath(json, << "data", fieldName >>)
     ELSE IF calls[c].resolver.kind = "reference"
       THEN ReadPath(json, << "data", "_entities", 1 >>)
     ELSE ReadPath(ReadPath(json, << "data", "_entities", 1 >>).value, << fieldName >>)

\* C16: on a 200 response a root-delegated resolver resolves with
\* data[fieldName], an entity-reference resolver with data._entities[0] and a
\* field resolver with data._entities[0][fieldName]; two resolutions of the
\* same kind and field name with the same body give the same value, whatever
\* their parents and whatever else is in flight.
C16_ResolvedValue ==
  /\ \A c \in DOMAIN calls :
       calls[c].state = "resolved" =>
         /\ ~ExpectedValue(c).threw
         /\ calls[c].value = ExpectedValue(c).value
  /\ \A c, d \in DOMAIN calls :
       (/\ calls[c].state = "resolved" /\ calls[d].state = "resolved"
        /\ calls[c].resolver.kind = calls[d].resolver.kind
        /\ calls[c].fieldNode.name = calls[d].fieldNode.name
        /\ calls[c].response = calls[d].response)
       => calls[c].value = calls[d].value

\* two field resolvers with different parents have resolved from equal bodies
\* while another call was in flight
C16_Witness ==
  \E c, d \in DOMAIN calls :
    /\ c # d
    /\ calls[c].state = "resolved" /\ calls[d].state = "resolved"
    /\ calls[c].resolver.kind = "field" /\ calls[d].resolver.kind = "field"
    /\ calls[c].parent # calls[d].parent
    /\ calls[c].response = calls[d].response
    /\ calls[c].value.j = "object"
    /\ \E e \in DOMAIN calls : calls[e].state = "inflight"

\* the positions in the list of the services whose SDL declares type t in a
\* block createTypeMap reads
Declarers(list, t) ==
  {i \in DOMAIN list : \E d \in Range(list[i].sdl.definitions) :
                         InTypeMap(d) /\ d.name = t}

DeclaredTypes(list) ==
  {t \in UNION {{d.name : d \in Range(list[i].sdl.definitions)} : i \in DOMAIN list} :
     Declarers(list, t) # {}}

Max(S) == CHOOSE x \in S : \A y \in S : y <= x

\* C17 (as stated): the owner recorded for a type is the declaring service
\* that comes last in the configured list, and the SDLs are concatenated in
\* the order of the configured list, however the introspections interleave.
C17_LaterInListWins ==
  gatewayPromise = "resolved" =>
    /\ \A t \in DeclaredTypes(services) \ {"Query"} :
         gateway.typeToServiceMap[t] = services[Max(Declarers(services, t))].name
    /\ gateway.serviceSDLs = [i \in DOMAIN services |-> services[i].sdl]

\* the place of service i of the list in the order of the keys of serviceMap:
\* names that are array indices first, in ascending order, then the other
\* names in the order of the list
KeyPlace(list, i) ==
  IF IsArrayIndex(list[i].name)
  THEN Cardinality({j \in DOMAIN list :
                      /\ IsArrayIndex(list[j].name)
                      /\ ArrayIndex(list[j].name) <= ArrayIndex(list[i].name)})
  ELSE Cardinality({j \in DOMAIN list : IsArrayIndex(list[j].name)})
       + Cardinality({j \in DOMAIN list : ~IsArrayIndex(list[j].name) /\ j <= i})

\* C17 (amended): the ownership index and the order of the SDLs are functions
\* of the configured list and the SDLs alone, however the introspections
\* interleave: the owner of a type is the declaring service that comes last
\* in the order of the keys of serviceMap, and the SDLs are concatenated in
\* that order; it is the order of the configured list when no service name is
\* an array index.
C17_LaterKeyWins ==
  gatewayPromise = "resolved" =>
    /\ DOMAIN gateway.typeToServiceMap = DeclaredTypes(services) \cup {"Query"}
    /\ gateway.typeToServiceMap["Query"] = NoService
    /\ \A t \in DeclaredTypes(services) \ {"Query"} :
         \E i \in Declarers(services, t) :
           /\ gateway.typeToServiceMap[t] = services[i].name
           /\ \A j \in Declarers(services, t) :
                KeyPlace(services, j) <= KeyPlace(services, i)
    /\ \A i \in DOMAIN services :
         gateway.serviceSDLs[KeyPlace(services, i)] = services[i].sdl
    /\ (\A i \in DOMAIN services : ~IsArrayIndex(services[i].name)) =>
         /\ \A t \in DeclaredTypes(services) \ {"Query"} :
              gateway.typeToServiceMap[t] =
                services[Max(Declarers(services, t))].name
         /\ gateway.serviceSDLs = [i \in DOMAIN services |-> services[i].sdl]

\* a gateway of services named by words is built with a type two of them
\* declare
C17_Witness ==
  /\ gatewayPromise = "resolved"
  /\ \A i \in DOMAIN services : ~IsArrayIndex(services[i].name)
  /\ \E t \in DeclaredTypes(services) \ {"Query"} :
       Cardinality(Declarers(services, t)) = 2

\* the persisted query provider of the request being handled
ProviderOf == opts.persistedQueryProvider

\* C18: with a persisted query provider, saveQuery is called only for a
\* request that is not in persisted format, with a query that is not empty,
\* when getHashForQuery gave a hash and once the execution has completed
\* without throwing; a failure of saveQuery leaves the result returned to the
\* client unchanged; a persisted request without a hash fails with
\* BadRequest(notSupportedError) and one with an unknown hash with
\* BadRequest(notFoundError), neither executing a query.
C18_PersistedQueries ==
  ProviderOf.configured =>
    /\ \A k \in DOMAIN saved :
         LET e == execs[saved[k].index] IN
           /\ ~e.body.persisted
           /\ saved[k].query # "" /\ saved[k].query = e.body.query
           /\ ProviderOf.getHashForQuery
           /\ saved[k].hash = getHashForQuery(saved[k].query)
           /\ saved[k].executed
           /\ e.state \in {"saving", "resolved"}
           /\ e.result = Some(GraphqlResult(e.body.query))
           /\ \A l \in DOMAIN saved : saved[l].index = saved[k].index => l = k
    /\ \A i \in DOMAIN execs :
         LET e == execs[i] IN
           /\ e.saveFailed =>
                /\ e.state = "resolved"
                /\ e.result = Some(GraphqlResult(e.query))
                /\ ~httpBody.batch =>
                     reply = [state |-> "resolved", value |-> GraphqlResult(e.query)]
           /\ (e.body.kind = "object" /\ e.body.persisted) =>
                IF ~ProviderOf.getHash \/ e.body.hash = ""
                THEN /\ e.state = "rejected"
                     /\ e.error = Some(BadRequest("notSupportedError"))
                     /\ ~e.executed
                ELSE IF getQueryFromHash(e.body.hash) = ""
                THEN /\ e.state \in {"lookup", "rejected"}
                     /\ e.state = "rejected" =>
                          e.error = Some(BadRequest("notFoundError"))
                     /\ ~e.executed
                ELSE TRUE

\* a query has been saved, saveQuery has failed and the client has its result
C18_Witness ==
  /\ ProviderOf.configured
  /\ ~httpBody.batch
  /\ saved # << >>
  /\ execs[1].saveFailed
  /\ reply.state = "resolved"

\* C19: when batched queries are allowed and the body is an array of n
\* requests, the handler replies with an array of n entries, the i-th being
\* the outcome of the i-th request in whatever order the executions complete;
\* an execution that throws gives { errors: [{ message }] } at its own place
\* and the batch does not fail.
C19_BatchedReply ==
  (httpBody.batch /\ opts.allowBatchedQueries /\ reply # NoReply) =>
    /\ reply.state # "rejected"
    /\ Len(execs) = Len(httpBody.items)
    /\ (\A i \in DOMAIN execs : Settled(execs[i])) => reply.state = "resolved"
    /\ reply.state = "resolved" =>
         /\ Len(reply.value) = Len(httpBody.items)
         /\ \A i \in DOMAIN httpBody.items :
              /\ execs[i].body = httpBody.items[i]
              /\ reply.value[i] =
                   IF execs[i].error # Absent
                   THEN [errors |-> << [message |-> execs[i].error[1].message] >>]
                   ELSE execs[i].result[1]

\* the fragments reachable from the fragments named, through the spreads of
\* their selections
RECURSIVE ReachableFragments(_, _)
ReachableFragments(names, fragments) ==
  LET next == names \cup
        UNION {Range(getFragmentNamesInSelection(fragments[n].selections)) :
                 n \in names}
  IN IF next = names THEN names ELSE ReachableFragments(next, fragments)

\* C20: the document a delegating resolver sends has one operation and then
\* each fragment reachable from the pruned selections exactly once (none
\* missing, none defined twice, also when a fragment is spread at several
\* places or reached through several fragments), each pruned to the fields
\* of the service at every depth.
C20_EachFragmentOnce ==
  forwarded.state = "returned" =>
    /\ \A i, j \in DOMAIN forwarded.fragments :
         forwarded.fragments[i].name = forwarded.fragments[j].name => i = j
    /\ {forwarded.fragments[i].name : i \in DOMAIN forwarded.fragments} =
         ReachableFragments(Range(forwarded.usedFragments), request.fragments)
    /\ \A i \in DOMAIN forwarded.fragments :
         PrunedAtEveryLevel(forwarded.fragments[i].selections,
                            ServiceNamed(gateway.serviceMap, "reviews").typeMap,
                            forwarded.fragments[i].typeCondition, gateway.schema)
====
